---- MODULE Spec2Model ----
(***************************************************************************)
(* OpenInsight: natural-language question -> read-only SQL -> confirmation *)
(* -> execution with a bounded AI repair loop.                             *)
(*                                                                         *)
(* Strings whose characters the code inspects (SQL text, model output) are *)
(* sequences of one-character strings.  Messages built with template       *)
(* literals are sequences of text fragments, concatenated with \o.  A JS   *)
(* null is the empty sequence None, a present value x is Some(x) = <<x>>.  *)
(***************************************************************************)
EXTENDS Integers, Sequences, FiniteSets, TLC

\* ------------------------------------------------------------------------
\* Bounds of the model
\* ------------------------------------------------------------------------
\* user events (selections, submissions, key presses) accepted in the first
\* run of the process, and in a run that follows a restart
MaxInputs == 4
MaxInputsAfterRestart == 3
\* process restarts (the configuration file survives a restart)
MaxRestarts == 1

\* ------------------------------------------------------------------------
\* Option values
\* ------------------------------------------------------------------------
None == <<>>
Some(x) == <<x>>
IsNone(o) == o = <<>>
IsSome(o) == o # <<>>
Get(o) == o[1]

\* ------------------------------------------------------------------------
\* Character strings
\* ------------------------------------------------------------------------
LowerCase == <<"a","b","c","d","e","f","g","h","i","j","k","l","m",
               "n","o","p","q","r","s","t","u","v","w","x","y","z">>
UpperCase == <<"A","B","C","D","E","F","G","H","I","J","K","L","M",
               "N","O","P","Q","R","S","T","U","V","W","X","Y","Z">>
Digits == {"0","1","2","3","4","5","6","7","8","9"}

\* String.prototype.toUpperCase on one character
UpperChar(c) ==
    IF \E i \in 1..26 : LowerCase[i] = c
    THEN UpperCase[CHOOSE i \in 1..26 : LowerCase[i] = c]
    ELSE c

toUpperCase(s) == [i \in 1..Len(s) |-> UpperChar(s[i])]

\* the characters matched by \s (and stripped by trim)
WhiteSpace == {" ", "\t", "\n", "\r"}

\* the characters matched by \w
IsWordChar(c) ==
    \/ \E i \in 1..26 : LowerCase[i] = c \/ UpperCase[i] = c
    \/ c \in Digits
    \/ c = "_"

RECURSIVE TrimStart(_)
TrimStart(s) ==
    IF s # <<>> /\ Head(s) \in WhiteSpace THEN TrimStart(Tail(s)) ELSE s

RECURSIVE TrimEnd(_)
TrimEnd(s) ==
    IF s # <<>> /\ s[Len(s)] \in WhiteSpace
    THEN TrimEnd(SubSeq(s, 1, Len(s) - 1))
    ELSE s

\* String.prototype.trim
trim(s) == TrimEnd(TrimStart(s))

startsWith(s, p) == Len(s) >= Len(p) /\ SubSeq(s, 1, Len(p)) = p

endsWith(s, p) ==
    Len(s) >= Len(p) /\ SubSeq(s, Len(s) - Len(p) + 1, Len(s)) = p

\* s.slice(n) for 0 <= n
sliceFrom(s, n) == SubSeq(s, n + 1, Len(s))

\* s.slice(0, -n) for 0 < n
sliceDropLast(s, n) == SubSeq(s, 1, Len(s) - n)

\* s.replace(/\s+/g, ' ')
RECURSIVE CollapseWhiteSpace(_)
CollapseWhiteSpace(s) ==
    IF s = <<>> THEN <<>>
    ELSE IF Head(s) \in WhiteSpace
         THEN <<" ">> \o CollapseWhiteSpace(TrimStart(s))
         ELSE <<Head(s)>> \o CollapseWhiteSpace(Tail(s))

\* s.split(sep) for a one-character separator
RECURSIVE SplitOn(_, _)
SplitOn(s, sep) ==
    IF \A i \in 1..Len(s) : s[i] # sep THEN <<s>>
    ELSE LET k == CHOOSE i \in 1..Len(s) :
                      s[i] = sep /\ \A j \in 1..(i - 1) : s[j] # sep
         IN <<SubSeq(s, 1, k - 1)>> \o SplitOn(SubSeq(s, k + 1, Len(s)), sep)

MatchesWordCaseSensitive(s, keyword) ==
    \E i \in 1..(Len(s) - Len(keyword) + 1) :
        /\ SubSeq(s, i, i + Len(keyword) - 1) = keyword
        /\ (i = 1 \/ ~IsWordChar(s[i - 1]))
        /\ (i + Len(keyword) > Len(s) \/ ~IsWordChar(s[i + Len(keyword)]))

\* new RegExp(`\\b${keyword}\\b`, 'i').test(s), keyword made of word characters
MatchesWord(s, keyword) ==
    \E i \in 1..(Len(s) - Len(keyword) + 1) :
        /\ toUpperCase(SubSeq(s, i, i + Len(keyword) - 1)) = keyword
        /\ (i = 1 \/ ~IsWordChar(s[i - 1]))
        /\ (i + Len(keyword) > Len(s) \/ ~IsWordChar(s[i + Len(keyword)]))

\* ------------------------------------------------------------------------
\* Read-only validation and fence stripping
\* ------------------------------------------------------------------------
\* the grave accent U+0060, which a TLA+ string literal cannot hold
BackTick == "<U+0060>"
FenceSql == <<BackTick,BackTick,BackTick,"s","q","l">>
Fence == <<BackTick,BackTick,BackTick>>
KwSelect == <<"S","E","L","E","C","T">>
KwWith == <<"W","I","T","H">>

dangerousKeywords == <<
    <<"I","N","S","E","R","T">>,
    <<"U","P","D","A","T","E">>,
    <<"D","E","L","E","T","E">>,
    <<"D","R","O","P">>,
    <<"A","L","T","E","R">>,
    <<"C","R","E","A","T","E">>,
    <<"T","R","U","N","C","A","T","E">>,
    <<"R","E","P","L","A","C","E">>,
    <<"G","R","A","N","T">>,
    <<"R","E","V","O","K","E">>,
    <<"E","X","E","C">>,
    <<"E","X","E","C","U","T","E">>,
    <<"C","A","L","L">>,
    <<"P","R","A","G","M","A">>,
    <<"A","T","T","A","C","H">>,
    <<"D","E","T","A","C","H">>,
    <<"V","A","C","U","U","M">> >>

\* cleanSqlResponse: trim, drop a leading fence (with or without sql), drop a
\* trailing fence, trim
cleanSqlResponse(sql) ==
    LET cleaned0 == trim(sql)
        cleaned1 == IF startsWith(cleaned0, FenceSql) THEN sliceFrom(cleaned0, 6)
                    ELSE IF startsWith(cleaned0, Fence) THEN sliceFrom(cleaned0, 3)
                    ELSE cleaned0
        cleaned2 == IF endsWith(cleaned1, Fence) THEN sliceDropLast(cleaned1, 3)
                    ELSE cleaned1
    IN trim(cleaned2)

isReadOnlyQueryAnyStatements(sql) ==
    LET normalized == trim(CollapseWhiteSpace(toUpperCase(sql)))
    IN /\ \A k \in 1..Len(dangerousKeywords) :
              ~MatchesWord(sql, dangerousKeywords[k])
       /\ startsWith(normalized, KwSelect) \/ startsWith(normalized, KwWith)

isReadOnlyQueryCaseSensitive(sql) ==
    LET normalized == trim(CollapseWhiteSpace(sql))
        parts == SelectSeq(SplitOn(sql, ";"), LAMBDA p : trim(p) # <<>>)
    IN /\ ~(Len(parts) > 1)
       /\ \A k \in 1..Len(dangerousKeywords) :
              ~MatchesWord(sql, dangerousKeywords[k])
       /\ startsWith(normalized, KwSelect) \/ startsWith(normalized, KwWith)

\* isReadOnlyQuery: one statement, no forbidden keyword, SELECT or WITH first
isReadOnlyQuery(sql) ==
    LET normalized == trim(CollapseWhiteSpace(toUpperCase(sql)))
        parts == SelectSeq(SplitOn(sql, ";"), LAMBDA p : trim(p) # <<>>)
    IN /\ ~(Len(parts) > 1)
       /\ \A k \in 1..Len(dangerousKeywords) :
              ~MatchesWord(sql, dangerousKeywords[k])
       /\ startsWith(normalized, KwSelect) \/ startsWith(normalized, KwWith)

\* ------------------------------------------------------------------------
\* Texts the environment can produce
\* ------------------------------------------------------------------------
\* raw completions of the AI provider
RawSelect1 == <<"S","E","L","E","C","T"," ","1">>
RawFencedSelect2 == <<BackTick,BackTick,BackTick,"s","q","l","\n","S","E","L","E","C","T"," ","2","\n",BackTick,BackTick,BackTick>>
RawDrop == <<"S","E","L","E","C","T"," ","1",";"," ","D","R","O","P"," ","T","A","B","L","E"," ","x">>
AiOutputs == {RawSelect1, RawFencedSelect2, RawDrop}

\* error.message of a failing driver or provider call (never empty)
ErrorTexts == {<<"e1">>, <<"e2">>}

\* the rows a successful statement returns
Rows == <<"row">>

\* ------------------------------------------------------------------------
\* Program constants and fixed configuration
\* ------------------------------------------------------------------------
maxRetries == 3
MAX_MESSAGES == 100

\* the configured data sources, one per backend; their connection strings
\* passed validateConnectionString when they were added
dataSources == <<[id |-> "s1", type |-> "postgres"],
                 [id |-> "s2", type |-> "mysql"],
                 [id |-> "s3", type |-> "sqlite"]>>
SourceIds == {dataSources[k].id : k \in DOMAIN dataSources}

\* the one natural-language question and the one preset name users type
Question == <<"how many users?">>
PresetName == <<"p">>

\* error.message of a failing connect and of a failing close
ConnectError == <<"ECONNREFUSED">>
CloseError == <<"ec">>

\* ------------------------------------------------------------------------
\* State
\* ------------------------------------------------------------------------
VARIABLES
    apiKey,          \* app.js OPENROUTER_KEY is set
    presets,         \* configuration file: source id -> saved presets
    appState,        \* App: 'manage-sources' | 'loading-schema' | 'query'
    selectedSource,  \* App: None or Some(source)
    schema,          \* App: None or Some(snapshot)
    schemaError,     \* App: None or Some(error text)
    messages,        \* QueryInterface: the transcript
    isProcessing,    \* QueryInterface
    pendingQuery,    \* QueryInterface: None or Some([sql, query])
    lastExecutedSql, \* QueryInterface: None or Some(sql)
    calls,           \* activations of the async functions, oldest first
    openConns,       \* ids of the connections the drivers hold open
    connSeq,         \* number of connection objects constructed so far
    inputsLeft,      \* user events still accepted in this run
    restartsLeft     \* restarts still allowed

vars == <<apiKey, presets, appState, selectedSource, schema, schemaError,
          messages, isProcessing, pendingQuery, lastExecutedSql, calls,
          openConns, connSeq, inputsLeft, restartsLeft>>

appVars == <<appState, selectedSource, schema, schemaError>>
uiVars == <<messages, isProcessing, pendingQuery, lastExecutedSql>>

\* ------------------------------------------------------------------------
\* Helpers
\* ------------------------------------------------------------------------
\* s.slice(-n) for 0 < n
lastN(s, n) == IF Len(s) <= n THEN s ELSE SubSeq(s, Len(s) - n + 1, Len(s))

RemoveAt(s, i) == SubSeq(s, 1, i - 1) \o SubSeq(s, i + 1, Len(s))

Message(role, content) == [role |-> role, content |-> content, data |-> None]

\* an addMessage that keeps everything
addMessageKeepingAll(prev, msg) == Append(prev, msg)

\* QueryInterface.addMessage
addMessage(prev, msg) == Append(lastN(prev, MAX_MESSAGES - 1), msg)

\* QueryInterface.addLog, once per line; a line is a sequence of fragments
RECURSIVE addLogs(_, _)
addLogs(prev, lines) ==
    IF lines = <<>> THEN prev
    ELSE addLogs(addMessage(prev, Message("log", Head(lines))), Tail(lines))

\* log lines of which only the fixed text is kept
FixedText(texts) == [k \in DOMAIN texts |-> <<texts[k]>>]

\* the state QueryInterface mounts with
InitialMessages(sch, schErr) ==
    (IF IsSome(sch) THEN <<Message("log", <<"Schema loaded: ">>)>> ELSE <<>>)
    \o (IF IsSome(schErr)
        THEN <<Message("error", <<"Schema error: ">> \o Get(schErr))>>
        ELSE <<>>)

NoResult == None
Result(error, sql, data) == Some([error |-> error, sql |-> sql, data |-> data])
SchemaResult(sch, error) == Some([schema |-> sch, error |-> error])

\* a fresh activation record
NewCall(kind) ==
    [kind |-> kind, pc |-> "entry",
     source |-> None,      \* fetchSchema: the source being read
     dbType |-> "",        \* the backend of the connection string
     query |-> <<>>,       \* generateQuery: naturalLanguageQuery
     history |-> <<>>,     \* generateQuery: history
     sqlQuery |-> <<>>,    \* executeQuery: sqlQuery
     attempt |-> 0, currentSql |-> <<>>, lastError |-> None,
     conn |-> None,        \* the attempt's connection object
     data |-> None,        \* rows of the statement that succeeded
     caught |-> None,      \* the exception a catch block is handling
     result |-> NoResult,  \* the value returned
     \* what the activation has done so far
     executed |-> <<>>,    \* SQL strings passed to conn.query
     repairs |-> <<>>,     \* arguments of the fixSQL calls
     fixes |-> <<>>,       \* results of the fixSQL calls
     outcomes |-> <<>>,    \* how each attempt's connect and try block ended
     errors |-> <<>>,      \* the exception of each attempt, None without one
     logs |-> <<>>,        \* the lines passed to onLog
     client |-> "",        \* generateSQL, fixSQL: how the provider is reached
     provider |-> <<>>,    \* generateSQL, fixSQL: what the provider will do
     sent |-> 0,           \* generateSQL, fixSQL: requests sent to the provider
     catalog |-> <<>>,     \* getSchema: what the database behind conn holds
     tableList |-> <<>>,   \* getSchema: the rows of tableList not yet visited
     snapshot |-> <<>>,    \* getSchema: the object schema being filled
     connIds |-> <<>>]     \* id of the connection object of each attempt

\* ------------------------------------------------------------------------
\* Database connections (DbConnector.js)
\* ------------------------------------------------------------------------
\* new PostgresConnection / MySQLConnection / SQLiteConnection
NewConnection(id, type) ==
    [id |-> id, type |-> type, connected |-> (type = "sqlite")]

\* a close() that calls the driver whatever the state of the connection
closeUnguarded(conn) ==
    {[threw |-> None, conn |-> [conn EXCEPT !.connected = FALSE],
      released |-> TRUE]}
    \cup {[threw |-> Some(CloseError), conn |-> conn, released |-> FALSE]}

\* close(): PostgresConnection and MySQLConnection do nothing unless connected;
\* SQLiteConnection always calls db.close(), and the db object does nothing
\* when its handle is closed already (connected stands for the open handle).
\* The driver's end()/close() may throw; the object's flag then stays as it
\* was and the connection is taken to be still open.
close(conn) ==
    IF ~conn.connected
    THEN {[threw |-> None, conn |-> conn, released |-> FALSE]}
    ELSE {[threw |-> None, conn |-> [conn EXCEPT !.connected = FALSE],
           released |-> TRUE]}
         \cup {[threw |-> Some(CloseError), conn |-> conn, released |-> FALSE]}

\* a catch block that does not close
closeInCatchSkipped(conn) ==
    {[threw |-> None, conn |-> conn, released |-> FALSE]}

\* await conn.close() in the catch block of fetchSchema and of executeQuery
closeInCatch(conn) == close(conn)

Released(open, conn, r) == IF r.released THEN open \ {conn.id} ELSE open

\* createConnection: the connection string is valid, so only the SQLite
\* constructor, which opens the database file at once, can throw
createConnection(id, type) ==
    {[threw |-> None, conn |-> Some(NewConnection(id, type))]}
    \cup (IF type = "sqlite"
          THEN {[threw |-> Some(ConnectError), conn |-> None]}
          ELSE {})

\* conn.query(sql): PostgresConnection and MySQLConnection connect first when
\* they are not connected yet, then all three run the statement
query(conn) ==
    LET live == [conn EXCEPT !.connected = TRUE] IN
    (IF conn.type # "sqlite" /\ ~conn.connected
     THEN {[threw |-> Some(ConnectError), conn |-> conn,
            kind |-> "connect_failed"]}
     ELSE {})
    \cup {[threw |-> None, conn |-> live, kind |-> "succeeded"]}
    \cup {[threw |-> Some(e), conn |-> live, kind |-> "statement_failed"] :
              e \in ErrorTexts}

Opened(open, conn) == IF conn.connected THEN open \cup {conn.id} ELSE open

\* ------------------------------------------------------------------------
\* App (app.js)
\* ------------------------------------------------------------------------
\* a handleSelectSource that does not forget the schema it holds
handleSelectSourceKeepingSchema(source) ==
    /\ selectedSource' = Some(source)
    /\ schemaError' = None
    /\ schema' = schema
    /\ appState' = "loading-schema"
    /\ messages' = <<>>
    /\ isProcessing' = FALSE
    /\ pendingQuery' = None
    /\ lastExecutedSql' = None
    /\ calls' = Append(calls, [NewCall("schema") EXCEPT
                                   !.pc = "connect",
                                   !.source = Some(source),
                                   !.dbType = source.type])

\* handleSelectSource up to its await: QueryInterface is unmounted while the
\* schema loads, and fetchSchema is called
handleSelectSource(source) ==
    /\ selectedSource' = Some(source)
    /\ schemaError' = None
    /\ schema' = None
    /\ appState' = "loading-schema"
    /\ messages' = <<>>
    /\ isProcessing' = FALSE
    /\ pendingQuery' = None
    /\ lastExecutedSql' = None
    /\ calls' = Append(calls, [NewCall("schema") EXCEPT
                                   !.pc = "connect",
                                   !.source = Some(source),
                                   !.dbType = source.type])

\* DataSourceManager: the user picks a source from the menu
SelectSource(k) ==
    /\ appState = "manage-sources"
    /\ inputsLeft > 0
    /\ inputsLeft' = inputsLeft - 1
    /\ handleSelectSource(dataSources[k])
    /\ UNCHANGED <<apiKey, presets, openConns, connSeq, restartsLeft>>

\* fetchSchema: conn = await createConnection(connectionString)
FetchSchemaConnect(i) ==
    LET c == calls[i] IN
    /\ c.kind = "schema" /\ c.pc = "connect"
    /\ \E r \in createConnection(connSeq + 1, c.dbType) :
          IF IsSome(r.threw)
          THEN /\ calls' = [calls EXCEPT ![i] = [c EXCEPT
                     !.pc = "returned",
                     !.result = SchemaResult(None,
                         Some(<<"Failed to connect: ">> \o Get(r.threw)))]]
               /\ UNCHANGED <<openConns, connSeq>>
          ELSE /\ calls' = [calls EXCEPT ![i] = [c EXCEPT
                     !.pc = "getSchema",
                     !.conn = r.conn,
                     !.connIds = Append(@, Get(r.conn).id)]]
               /\ openConns' = Opened(openConns, Get(r.conn))
               /\ connSeq' = connSeq + 1
    /\ UNCHANGED <<apiKey, presets, appVars, uiVars, inputsLeft, restartsLeft>>

\* fetchSchema: schema = await getSchema(conn, dbType); every dialect starts
\* with a catalog query
FetchSchemaGet(i) ==
    LET c == calls[i] IN
    /\ c.kind = "schema" /\ c.pc = "getSchema"
    /\ \E r \in query(Get(c.conn)) :
          /\ calls' = [calls EXCEPT ![i] = [c EXCEPT
                !.pc = IF IsSome(r.threw) THEN "catch" ELSE "close_try",
                !.conn = Some(r.conn),
                !.caught = r.threw,
                !.outcomes = Append(@, r.kind),
                !.data = IF IsSome(r.threw) THEN None
                         ELSE Some(<<"schema of", Get(c.source).id>>)]]
          /\ openConns' = Opened(openConns, r.conn)
    /\ UNCHANGED <<apiKey, presets, appVars, uiVars, connSeq, inputsLeft,
                   restartsLeft>>

\* fetchSchema: await conn.close() inside the try block, then return
FetchSchemaCloseTry(i) ==
    LET c == calls[i] IN
    /\ c.kind = "schema" /\ c.pc = "close_try"
    /\ \E r \in close(Get(c.conn)) :
          /\ calls' = [calls EXCEPT ![i] =
                IF IsSome(r.threw)
                THEN [c EXCEPT !.pc = "catch", !.conn = Some(r.conn),
                               !.caught = r.threw]
                ELSE [c EXCEPT !.pc = "returned", !.conn = Some(r.conn),
                               !.result = SchemaResult(c.data, None)]]
          /\ openConns' = Released(openConns, r.conn, r)
    /\ UNCHANGED <<apiKey, presets, appVars, uiVars, connSeq, inputsLeft,
                   restartsLeft>>

\* fetchSchema: the catch block closes and returns the error; an exception of
\* this close leaves the function
FetchSchemaCatch(i) ==
    LET c == calls[i] IN
    /\ c.kind = "schema" /\ c.pc = "catch"
    /\ \E r \in closeInCatch(Get(c.conn)) :
          /\ calls' = [calls EXCEPT ![i] =
                IF IsSome(r.threw)
                THEN [c EXCEPT !.pc = "thrown", !.conn = Some(r.conn),
                               !.caught = r.threw]
                ELSE [c EXCEPT !.pc = "returned", !.conn = Some(r.conn),
                               !.result = SchemaResult(None,
                                   Some(<<"Failed to fetch schema: ">>
                                        \o Get(c.caught)))]]
          /\ openConns' = Released(openConns, r.conn, r)
    /\ UNCHANGED <<apiKey, presets, appVars, uiVars, connSeq, inputsLeft,
                   restartsLeft>>

\* handleSelectSource after its await: store the result and show
\* QueryInterface, whose transcript starts with the schema status
HandleSelectSourceResume(i) ==
    LET c == calls[i]
        r == Get(c.result)
        sch == IF IsSome(r.error) THEN schema ELSE r.schema
        err == IF IsSome(r.error) THEN r.error ELSE schemaError
    IN
    /\ c.kind = "schema" /\ c.pc = "returned"
    /\ schema' = sch
    /\ schemaError' = err
    /\ appState' = "query"
    /\ messages' = InitialMessages(sch, err)
    /\ calls' = RemoveAt(calls, i)
    /\ UNCHANGED <<apiKey, presets, selectedSource, isProcessing, pendingQuery,
                   lastExecutedSql, openConns, connSeq, inputsLeft,
                   restartsLeft>>

\* ------------------------------------------------------------------------
\* AI client (OpenRouterClient.js)
\* ------------------------------------------------------------------------
\* the {sql: null, error} results of generateSQL / fixSQL: an empty
\* completion, a response that is not ok, and a transport or parse failure
ApiError == <<"OpenRouter API error: ", "e1">>
AiErrors(prefix) == {<<"No SQL generated">>, ApiError, <<prefix, "e1">>}

\* ------------------------------------------------------------------------
\* generateQuery (app.js handleGenerateQuery, generateQuery, generateSQL)
\* ------------------------------------------------------------------------
\* handlers that go on without a schema
schemaMissingIgnored == FALSE

\* handleGenerateQuery, handleExecuteQuery: if (!schema)
schemaMissing == IsNone(schema)

\* handleGenerateQuery and generateQuery up to the request to the provider
GenerateQueryEntry(i) ==
    LET c == calls[i] IN
    /\ c.kind = "gen" /\ c.pc = "entry"
    /\ IF ~apiKey
       THEN /\ calls' = [calls EXCEPT ![i] = [c EXCEPT
                  !.pc = "returned",
                  !.result = Result(
                      Some(<<"OPENROUTER_KEY environment variable is required">>),
                      None, None)]]
            /\ UNCHANGED messages
       ELSE IF schemaMissing
       THEN /\ calls' = [calls EXCEPT ![i] = [c EXCEPT
                  !.pc = "returned",
                  !.result = Result(Some(<<"Database schema not loaded">>),
                                    None, None)]]
            /\ UNCHANGED messages
       ELSE /\ calls' = [calls EXCEPT ![i] = [c EXCEPT !.pc = "ai"]]
            /\ messages' = addLogs(messages, FixedText(
                   <<"Using cached schema", "Generating SQL with AI...",
                     "[AI Request] User query: ",
                     "[AI Request] Schema tables: ">>
                   \o (IF Len(c.history) > 0
                       THEN <<"[AI Request] Context: ">> ELSE <<>>)))
    /\ UNCHANGED <<apiKey, presets, appVars, isProcessing, pendingQuery,
                   lastExecutedSql, openConns, connSeq, inputsLeft,
                   restartsLeft>>

\* a generateQuery that lets every cleaned completion through
GeneratedSqlNeverRejected(sql) == FALSE

\* generateQuery: if (!isReadOnlyQuery(sql))
GeneratedSqlRejected(sql) == ~isReadOnlyQuery(sql)

\* generateSQL's answer, then generateQuery cleans and validates it
GenerateQueryAnswer(i) ==
    LET c == calls[i] IN
    /\ c.kind = "gen" /\ c.pc = "ai"
    /\ \/ \E e \in AiErrors("Failed to generate SQL: ") :
             /\ calls' = [calls EXCEPT ![i] = [c EXCEPT
                   !.pc = "returned",
                   !.result = Result(Some(e), None, None)]]
             /\ messages' = addLogs(messages, FixedText(
                    IF e = <<"No SQL generated">>
                    THEN <<"[AI Response] Model: ", "[AI Response] Tokens: ",
                           "[AI Response] Generated SQL: ",
                           "[AI Error] No SQL generated">>
                    ELSE <<"[AI Error] ">>))
       \/ \E raw \in AiOutputs :
             LET sql == cleanSqlResponse(raw) IN
             /\ calls' = [calls EXCEPT ![i] = [c EXCEPT
                   !.pc = "returned",
                   !.result =
                       IF GeneratedSqlRejected(sql)
                       THEN Result(Some(<<"Only SELECT queries are allowed">>),
                                   Some(sql), None)
                       ELSE Result(None, Some(sql), None)]]
             /\ messages' = addLogs(messages, FixedText(
                    <<"[AI Response] Model: ", "[AI Response] Tokens: ",
                      "[AI Response] Generated SQL: ">>))
    /\ UNCHANGED <<apiKey, presets, appVars, isProcessing, pendingQuery,
                   lastExecutedSql, openConns, connSeq, inputsLeft,
                   restartsLeft>>

\* ------------------------------------------------------------------------
\* executeQuery (app.js handleExecuteQuery, executeQuery)
\* ------------------------------------------------------------------------
\* handleExecuteQuery, then executeQuery up to its loop: createOpenRouterClient
\* throws without an API key
ExecuteQueryEntry(i) ==
    LET c == calls[i] IN
    /\ c.kind = "exec" /\ c.pc = "entry"
    /\ calls' = [calls EXCEPT ![i] =
          IF schemaMissing
          THEN [c EXCEPT !.pc = "returned",
                         !.result = Result(
                             Some(<<"Database schema not loaded">>),
                             Some(c.sqlQuery), None)]
          ELSE IF ~apiKey
          THEN [c EXCEPT !.pc = "thrown",
                         !.caught = Some(<<"OpenRouter API key is required">>)]
          ELSE [c EXCEPT !.pc = "connect", !.attempt = 1,
                         !.currentSql = c.sqlQuery, !.lastError = None]]
    /\ UNCHANGED <<apiKey, presets, appVars, uiVars, openConns, connSeq,
                   inputsLeft, restartsLeft>>

\* fixSQL's results: {sql: null, error} or {sql, error: null}
FixResults ==
    {[sql |-> None, error |-> Some(e)] : e \in AiErrors("Failed to fix SQL: ")}
    \cup {[sql |-> Some(raw), error |-> None] : raw \in AiOutputs}

\* a loop head that goes on with the old SQL when fixSQL reports an error
AfterFixIgnoringError(c, r) ==
    IF IsSome(r.error) THEN [c EXCEPT !.pc = "connect"]
    ELSE IF ~isReadOnlyQuery(cleanSqlResponse(Get(r.sql)))
    THEN [c EXCEPT !.pc = "returned",
                   !.currentSql = cleanSqlResponse(Get(r.sql)),
                   !.result = Result(Some(<<"Only SELECT queries are allowed">>),
                                     Some(cleanSqlResponse(Get(r.sql))), None)]
    ELSE [c EXCEPT !.pc = "connect",
                   !.currentSql = cleanSqlResponse(Get(r.sql))]

\* a loop head that does not validate the repaired SQL
AfterFixWithoutValidation(c, r) ==
    IF IsSome(r.error)
    THEN [c EXCEPT !.pc = "returned",
                   !.result = Result(r.error, Some(c.currentSql), None)]
    ELSE [c EXCEPT !.pc = "connect",
                   !.currentSql = cleanSqlResponse(Get(r.sql))]

\* a loop head that validates the repaired SQL and then runs the old one again
AfterFixKeepingSql(c, r) ==
    IF IsSome(r.error)
    THEN [c EXCEPT !.pc = "returned",
                   !.result = Result(r.error, Some(c.currentSql), None)]
    ELSE IF ~isReadOnlyQuery(cleanSqlResponse(Get(r.sql)))
    THEN [c EXCEPT !.pc = "returned",
                   !.currentSql = cleanSqlResponse(Get(r.sql)),
                   !.result = Result(Some(<<"Only SELECT queries are allowed">>),
                                     Some(cleanSqlResponse(Get(r.sql))), None)]
    ELSE [c EXCEPT !.pc = "connect"]

\* the head of the loop once fixSQL has answered r: return its error, else
\* clean the SQL, return a validation error, else go on to connect
AfterFix(c, r) ==
    IF IsSome(r.error)
    THEN [c EXCEPT !.pc = "returned",
                   !.result = Result(r.error, Some(c.currentSql), None)]
    ELSE IF ~isReadOnlyQuery(cleanSqlResponse(Get(r.sql)))
    THEN [c EXCEPT !.pc = "returned",
                   !.currentSql = cleanSqlResponse(Get(r.sql)),
                   !.result = Result(Some(<<"Only SELECT queries are allowed">>),
                                     Some(cleanSqlResponse(Get(r.sql))), None)]
    ELSE [c EXCEPT !.pc = "connect",
                   !.currentSql = cleanSqlResponse(Get(r.sql))]

\* what executeQuery and fixSQL log around the fixSQL call that answers r
FixLogs(c, r) ==
    << <<"Attempt ", ToString(c.attempt), "/", ToString(maxRetries),
         ": Fixing SQL...">>,
       <<"[AI Request] Fixing SQL error: ">> \o Get(c.lastError) >>
    \o (IF IsSome(r.sql)
        THEN << <<"[AI Response] Fixed SQL: ">> \o Get(r.sql) >>
        ELSE IF r.error = Some(<<"No SQL generated">>)
        THEN << <<"[AI Response] Fixed SQL: ">> >>
        ELSE IF r.error = Some(ApiError) THEN <<>>
        ELSE << <<"[AI Error] ", "e1">> >>)

\* the head of the loop for attempt > 1: fixSQL(currentSql, lastError, schema)
ExecuteQueryFix(i) ==
    LET c == calls[i] IN
    /\ c.kind = "exec" /\ c.pc = "fix"
    /\ \E r \in FixResults :
          /\ calls' = [calls EXCEPT ![i] =
                AfterFix([c EXCEPT
                             !.repairs = Append(@, [sql |-> c.currentSql,
                                                    error |-> c.lastError]),
                             !.fixes = Append(@, r),
                             !.logs = @ \o FixLogs(c, r)],
                         r)]
          /\ messages' = addLogs(messages, FixLogs(c, r))
    /\ UNCHANGED <<apiKey, presets, appVars, isProcessing, pendingQuery,
                   lastExecutedSql, openConns, connSeq, inputsLeft,
                   restartsLeft>>

\* conn = await createConnection(connectionString)
ExecuteQueryConnect(i) ==
    LET c == calls[i] IN
    /\ c.kind = "exec" /\ c.pc = "connect"
    /\ \E r \in createConnection(connSeq + 1, c.dbType) :
          IF IsSome(r.threw)
          THEN /\ calls' = [calls EXCEPT ![i] = [c EXCEPT
                     !.pc = "returned",
                     !.outcomes = Append(@, "connect_failed"),
                     !.errors = Append(@, r.threw),
                     !.result = Result(
                         Some(<<"Failed to connect: ">> \o Get(r.threw)),
                         Some(c.currentSql), None)]]
               /\ UNCHANGED <<openConns, connSeq>>
          ELSE /\ calls' = [calls EXCEPT ![i] = [c EXCEPT
                     !.pc = "query",
                     !.conn = r.conn,
                     !.connIds = Append(@, Get(r.conn).id)]]
               /\ openConns' = Opened(openConns, Get(r.conn))
               /\ connSeq' = connSeq + 1
    /\ UNCHANGED <<apiKey, presets, appVars, uiVars, inputsLeft, restartsLeft>>

\* log('Executing query...'), and after a query that returned
\* log(`Query returned ${rows.length} rows`)
RunLogs(r) ==
    << <<"Executing query...">> >>
    \o (IF IsSome(r.threw) THEN <<>>
        ELSE << <<"Query returned ", ToString(Len(Rows)), " rows">> >>)

\* data = await conn.query(currentSql)
ExecuteQueryRun(i) ==
    LET c == calls[i] IN
    /\ c.kind = "exec" /\ c.pc = "query"
    /\ \E r \in query(Get(c.conn)) :
          /\ calls' = [calls EXCEPT ![i] = [c EXCEPT
                !.pc = IF IsSome(r.threw) THEN "catch" ELSE "close_try",
                !.conn = Some(r.conn),
                !.caught = r.threw,
                !.executed = Append(@, c.currentSql),
                !.outcomes = Append(@, r.kind),
                !.errors = Append(@, r.threw),
                !.data = IF IsSome(r.threw) THEN None ELSE Some(Rows),
                !.logs = @ \o RunLogs(r)]]
          /\ openConns' = Opened(openConns, r.conn)
          /\ messages' = addLogs(messages, RunLogs(r))
    /\ UNCHANGED <<apiKey, presets, appVars, isProcessing, pendingQuery,
                   lastExecutedSql, connSeq, inputsLeft, restartsLeft>>

\* await conn.close() inside the try block, then return the rows
ExecuteQueryCloseTry(i) ==
    LET c == calls[i] IN
    /\ c.kind = "exec" /\ c.pc = "close_try"
    /\ \E r \in close(Get(c.conn)) :
          /\ calls' = [calls EXCEPT ![i] =
                IF IsSome(r.threw)
                THEN [c EXCEPT !.pc = "catch", !.conn = Some(r.conn),
                               !.caught = r.threw,
                               !.outcomes = [@ EXCEPT ![Len(@)] =
                                                "close_failed"],
                               !.errors = [@ EXCEPT ![Len(@)] = r.threw]]
                ELSE [c EXCEPT !.pc = "returned", !.conn = Some(r.conn),
                               !.result = Result(None, Some(c.currentSql),
                                                 c.data)]]
          /\ openConns' = Released(openConns, r.conn, r)
    /\ UNCHANGED <<apiKey, presets, appVars, uiVars, connSeq, inputsLeft,
                   restartsLeft>>

\* a catch block that keeps the first error instead of the last
AfterCatchKeepingFirstError(c) ==
    LET failed == [c EXCEPT !.lastError =
                       IF IsSome(c.lastError) THEN c.lastError ELSE c.caught]
    IN
    IF c.attempt = maxRetries
    THEN [failed EXCEPT
             !.pc = "returned",
             !.result = Result(
                 Some(<<"Query failed after ", ToString(maxRetries),
                        " attempts: ">> \o Get(failed.lastError)),
                 Some(c.currentSql), None)]
    ELSE [failed EXCEPT !.pc = "fix", !.attempt = c.attempt + 1]

\* what the catch block does once its close has returned: keep the error,
\* give up on the last attempt, otherwise go round the loop
AfterCatch(c) ==
    LET failed == [c EXCEPT !.lastError = c.caught] IN
    IF c.attempt = maxRetries
    THEN [failed EXCEPT
             !.pc = "returned",
             !.result = Result(
                 Some(<<"Query failed after ", ToString(maxRetries),
                        " attempts: ">> \o Get(failed.lastError)),
                 Some(c.currentSql), None)]
    ELSE IF c.attempt + 1 <= maxRetries
    THEN [failed EXCEPT !.pc = "fix", !.attempt = c.attempt + 1]
    ELSE [failed EXCEPT
             !.pc = "returned",
             !.result = Result(Some(<<"Unexpected error">>),
                               Some(c.currentSql), None)]

\* log(`Query error: ${lastError}`)
CatchLogs(c) == << <<"Query error: ">> \o Get(c.caught) >>

\* the catch block: await conn.close(), whose exception leaves executeQuery
ExecuteQueryCatch(i) ==
    LET c == calls[i] IN
    /\ c.kind = "exec" /\ c.pc = "catch"
    /\ \E r \in closeInCatch(Get(c.conn)) :
          /\ calls' = [calls EXCEPT ![i] =
                IF IsSome(r.threw)
                THEN [c EXCEPT !.pc = "thrown", !.conn = Some(r.conn),
                               !.caught = r.threw]
                ELSE AfterCatch([c EXCEPT !.conn = Some(r.conn),
                                          !.logs = @ \o CatchLogs(c)])]
          /\ openConns' = Released(openConns, r.conn, r)
          /\ messages' = IF IsSome(r.threw) THEN messages
                         ELSE addLogs(messages, CatchLogs(c))
    /\ UNCHANGED <<apiKey, presets, appVars, isProcessing, pendingQuery,
                   lastExecutedSql, connSeq, inputsLeft, restartsLeft>>

\* ------------------------------------------------------------------------
\* Initial state: a fresh process with an empty configuration file
\* ------------------------------------------------------------------------
Init ==
    /\ apiKey \in BOOLEAN
    /\ presets = [id \in SourceIds |-> <<>>]
    /\ appState = "manage-sources"
    /\ selectedSource = None
    /\ schema = None
    /\ schemaError = None
    /\ messages = <<>>
    /\ isProcessing = FALSE
    /\ pendingQuery = None
    /\ lastExecutedSql = None
    /\ calls = <<>>
    /\ openConns = {}
    /\ connSeq = 0
    /\ inputsLeft = MaxInputs
    /\ restartsLeft = MaxRestarts

\* ------------------------------------------------------------------------
\* QueryInterface (QueryInterface.js)
\* ------------------------------------------------------------------------
\* a handleSubmit that does not look at isProcessing
SubmitAcceptedWhileProcessing == IsNone(pendingQuery)

\* handleSubmit goes on only when nothing is processing or pending
SubmitAccepted == ~isProcessing /\ IsNone(pendingQuery)

\* the useInput handler goes on only for a pending query that is not running
KeyAccepted == IsSome(pendingQuery) /\ ~isProcessing

\* handleSubmit or the useInput handler returns at once
InputRejected ==
    /\ appState = "query"
    /\ ~SubmitAccepted \/ ~KeyAccepted
    /\ UNCHANGED vars

\* a history that takes the last 10 messages of any role
historyOfUnfiltered(msgs) ==
    [k \in 1..Len(lastN(msgs, 10)) |->
        [role |-> lastN(msgs, 10)[k].role,
         content |-> lastN(msgs, 10)[k].content]]

\* handleSubmit: messages.filter(user or assistant).slice(-10).map(...)
historyOf(msgs) ==
    LET turns == SelectSeq(msgs,
                     LAMBDA m : m.role = "user" \/ m.role = "assistant")
    IN [k \in 1..Len(lastN(turns, 10)) |->
           [role |-> lastN(turns, 10)[k].role,
            content |-> lastN(turns, 10)[k].content]]

\* a QueryInterface that is always told there is a key
hasApiKeyAssumed == TRUE

\* the prop hasApiKey={Boolean(OPENROUTER_KEY)}
hasApiKey == apiKey

\* handleSubmit with a question: with an API key, generation starts with the
\* last 10 user and assistant messages of the transcript as rendered
SubmitQuestion ==
    LET shown == addMessage(messages, Message("user", Question))
        history == historyOf(messages)
    IN
    /\ appState = "query" /\ inputsLeft > 0
    /\ SubmitAccepted
    /\ inputsLeft' = inputsLeft - 1
    /\ messages' =
          IF hasApiKey THEN shown
          ELSE addMessage(shown, Message("error",
                   <<"OPENROUTER_KEY environment variable is required">>))
    /\ isProcessing' = hasApiKey
    /\ calls' = IF hasApiKey
                THEN Append(calls, [NewCall("gen") EXCEPT
                                       !.query = Question,
                                       !.history = history])
                ELSE calls
    /\ UNCHANGED <<apiKey, presets, appVars, pendingQuery, lastExecutedSql,
                   openConns, connSeq, restartsLeft>>

\* handleSubmit after the await of onGenerateQuery
HandleSubmitResume(i) ==
    LET c == calls[i]
        r == Get(c.result)
    IN
    /\ c.kind = "gen" /\ c.pc = "returned"
    /\ isProcessing' = FALSE
    /\ IF IsSome(r.error)
       THEN /\ messages' = addMessage(messages, Message("error", Get(r.error)))
            /\ UNCHANGED pendingQuery
       ELSE /\ pendingQuery' = Some([sql |-> Get(r.sql), query |-> c.query])
            /\ messages' = addMessage(messages, Message("confirm", Get(r.sql)))
    /\ calls' = RemoveAt(calls, i)
    /\ UNCHANGED <<apiKey, presets, appVars, lastExecutedSql, openConns,
                   connSeq, inputsLeft, restartsLeft>>

\* ConfigManager.savePreset: refuse a name the source already has, else append
savePreset(sourceId, preset) ==
    IF \E k \in DOMAIN presets[sourceId] :
           presets[sourceId][k].name = preset.name
    THEN [success |-> FALSE,
          error |-> <<"A preset with this name already exists">>,
          presets |-> presets]
    ELSE [success |-> TRUE, error |-> <<>>,
          presets |-> [presets EXCEPT ![sourceId] = Append(@, preset)]]

\* handleCommand '/save <name>'
SubmitSave ==
    LET shown == addMessage(messages, Message("user", <<"/save ">> \o PresetName))
        saved == savePreset(Get(selectedSource).id,
                            [name |-> PresetName, sql |-> Get(lastExecutedSql)])
    IN
    /\ appState = "query" /\ inputsLeft > 0
    /\ SubmitAccepted
    /\ inputsLeft' = inputsLeft - 1
    /\ IF IsNone(lastExecutedSql)
       THEN /\ messages' = addMessage(shown, Message("error",
                   <<"No query to save. Run a query first.">>))
            /\ UNCHANGED presets
       ELSE /\ presets' = saved.presets
            /\ messages' = addMessage(shown,
                   IF saved.success
                   THEN Message("system", <<"Preset saved: ">> \o PresetName)
                   ELSE Message("error", saved.error))
    /\ UNCHANGED <<apiKey, appVars, isProcessing, pendingQuery, lastExecutedSql,
                   calls, openConns, connSeq, restartsLeft>>

\* handleCommand '/presets <n>': the n-th preset of the source becomes the
\* pending query
SubmitPresets(n) ==
    LET shown == addMessage(messages, Message("user", <<"/presets ", ToString(n)>>))
        loaded == presets[Get(selectedSource).id]
        idx == n - 1
    IN
    /\ appState = "query" /\ inputsLeft > 0
    /\ SubmitAccepted
    /\ inputsLeft' = inputsLeft - 1
    /\ IF idx >= 0 /\ idx < Len(loaded)
       THEN /\ pendingQuery' = Some([sql |-> loaded[idx + 1].sql,
                                     query |-> loaded[idx + 1].name])
            /\ messages' = addMessage(shown,
                   Message("confirm", loaded[idx + 1].sql))
       ELSE /\ messages' = addMessage(shown,
                   Message("error", <<"Invalid preset number. Use 1-">>))
            /\ UNCHANGED pendingQuery
    /\ UNCHANGED <<apiKey, presets, appVars, isProcessing, lastExecutedSql,
                   calls, openConns, connSeq, restartsLeft>>

\* a '/new' that keeps the turns of the old thread under the new heading
SubmitNewKeepingTurns ==
    /\ appState = "query" /\ inputsLeft > 0
    /\ SubmitAccepted
    /\ inputsLeft' = inputsLeft - 1
    /\ messages' = <<Message("system", <<"New thread started">>)>>
                   \o SelectSeq(messages,
                          LAMBDA m : m.role = "user" \/ m.role = "assistant")
    /\ UNCHANGED <<apiKey, presets, appVars, isProcessing, pendingQuery,
                   lastExecutedSql, calls, openConns, connSeq, restartsLeft>>

\* handleCommand '/clear': the user message just added goes with the rest
SubmitClear ==
    /\ appState = "query" /\ inputsLeft > 0
    /\ SubmitAccepted
    /\ inputsLeft' = inputsLeft - 1
    /\ messages' = <<>>
    /\ UNCHANGED <<apiKey, presets, appVars, isProcessing, pendingQuery,
                   lastExecutedSql, calls, openConns, connSeq, restartsLeft>>

\* handleCommand '/help'
SubmitHelp ==
    /\ appState = "query" /\ inputsLeft > 0
    /\ SubmitAccepted
    /\ inputsLeft' = inputsLeft - 1
    /\ messages' = addMessage(addMessage(messages, Message("user", <<"/help">>)),
                              Message("system", <<"Commands:">>))
    /\ UNCHANGED <<apiKey, presets, appVars, isProcessing, pendingQuery,
                   lastExecutedSql, calls, openConns, connSeq, restartsLeft>>

\* handleCommand '/new'
SubmitNew ==
    /\ appState = "query" /\ inputsLeft > 0
    /\ SubmitAccepted
    /\ inputsLeft' = inputsLeft - 1
    /\ messages' = <<Message("system", <<"New thread started">>)>>
    /\ UNCHANGED <<apiKey, presets, appVars, isProcessing, pendingQuery,
                   lastExecutedSql, calls, openConns, connSeq, restartsLeft>>

\* handleCommand '/sources <n>': onSwitchSource is handleSelectSource
SubmitSources(k) ==
    /\ appState = "query" /\ inputsLeft > 0
    /\ SubmitAccepted
    /\ inputsLeft' = inputsLeft - 1
    /\ handleSelectSource(dataSources[k])
    /\ UNCHANGED <<apiKey, presets, openConns, connSeq, restartsLeft>>

\* an executeConfirmedQuery that remembers the SQL before it has run
executeConfirmedQueryRemembering ==
    /\ isProcessing' = TRUE
    /\ pendingQuery' = None
    /\ lastExecutedSql' = Some(Get(pendingQuery).sql)
    /\ calls' = Append(calls, [NewCall("exec") EXCEPT
                                  !.sqlQuery = Get(pendingQuery).sql,
                                  !.dbType = Get(selectedSource).type])
    /\ UNCHANGED messages

\* executeConfirmedQuery up to its await
executeConfirmedQuery ==
    /\ isProcessing' = TRUE
    /\ pendingQuery' = None
    /\ calls' = Append(calls, [NewCall("exec") EXCEPT
                                  !.sqlQuery = Get(pendingQuery).sql,
                                  !.dbType = Get(selectedSource).type])
    /\ UNCHANGED <<messages, lastExecutedSql>>

\* a cancelPendingQuery that leaves the query pending
cancelKeepingPendingQuery ==
    /\ messages' = addMessage(messages, Message("system", <<"Query cancelled">>))
    /\ UNCHANGED <<pendingQuery, isProcessing, lastExecutedSql, calls>>

\* cancelPendingQuery
cancelPendingQuery ==
    /\ messages' = addMessage(messages, Message("system", <<"Query cancelled">>))
    /\ pendingQuery' = None
    /\ UNCHANGED <<isProcessing, lastExecutedSql, calls>>

\* the useInput handler: y or Y
PressY ==
    /\ appState = "query" /\ inputsLeft > 0
    /\ KeyAccepted
    /\ inputsLeft' = inputsLeft - 1
    /\ executeConfirmedQuery
    /\ UNCHANGED <<apiKey, presets, appVars, openConns, connSeq, restartsLeft>>

\* the useInput handler: n, N or Escape
PressN ==
    /\ appState = "query" /\ inputsLeft > 0
    /\ KeyAccepted
    /\ inputsLeft' = inputsLeft - 1
    /\ cancelPendingQuery
    /\ UNCHANGED <<apiKey, presets, appVars, openConns, connSeq, restartsLeft>>

\* executeConfirmedQuery after the await of onExecuteQuery
ExecuteConfirmedResume(i) ==
    LET c == calls[i]
        r == Get(c.result)
    IN
    /\ c.kind = "exec" /\ c.pc = "returned"
    /\ isProcessing' = FALSE
    /\ IF IsSome(r.error)
       THEN /\ messages' = addMessage(messages, Message("error", Get(r.error)))
            /\ UNCHANGED lastExecutedSql
       ELSE /\ lastExecutedSql' = r.sql
            /\ messages' = addMessage(messages,
                   [role |-> "assistant", content |-> Get(r.sql),
                    data |-> r.data])
    /\ calls' = RemoveAt(calls, i)
    /\ UNCHANGED <<apiKey, presets, appVars, pendingQuery, openConns, connSeq,
                   inputsLeft, restartsLeft>>

\* ------------------------------------------------------------------------
\* The process
\* ------------------------------------------------------------------------
\* the process ends and is started again: the environment may have changed,
\* the configuration file is what it was, the operating system has closed
\* what was open
Restart ==
    /\ restartsLeft > 0
    /\ restartsLeft' = restartsLeft - 1
    /\ apiKey' \in BOOLEAN
    /\ appState' = "manage-sources"
    /\ selectedSource' = None
    /\ schema' = None
    /\ schemaError' = None
    /\ messages' = <<>>
    /\ isProcessing' = FALSE
    /\ pendingQuery' = None
    /\ lastExecutedSql' = None
    /\ calls' = <<>>
    /\ openConns' = {}
    /\ connSeq' = 0
    /\ inputsLeft' = MaxInputsAfterRestart
    /\ UNCHANGED presets

Next ==
    \/ \E k \in DOMAIN dataSources : SelectSource(k)
    \/ \E i \in DOMAIN calls : FetchSchemaConnect(i)
    \/ \E i \in DOMAIN calls : FetchSchemaGet(i)
    \/ \E i \in DOMAIN calls : FetchSchemaCloseTry(i)
    \/ \E i \in DOMAIN calls : FetchSchemaCatch(i)
    \/ \E i \in DOMAIN calls : HandleSelectSourceResume(i)
    \/ InputRejected
    \/ SubmitQuestion
    \/ \E i \in DOMAIN calls : GenerateQueryEntry(i)
    \/ \E i \in DOMAIN calls : GenerateQueryAnswer(i)
    \/ \E i \in DOMAIN calls : HandleSubmitResume(i)
    \/ SubmitSave
    \/ SubmitPresets(1)
    \/ SubmitNew
    \/ \E k \in DOMAIN dataSources : SubmitSources(k)
    \/ PressY
    \/ PressN
    \/ \E i \in DOMAIN calls : ExecuteQueryEntry(i)
    \/ \E i \in DOMAIN calls : ExecuteQueryFix(i)
    \/ \E i \in DOMAIN calls : ExecuteQueryConnect(i)
    \/ \E i \in DOMAIN calls : ExecuteQueryRun(i)
    \/ \E i \in DOMAIN calls : ExecuteQueryCloseTry(i)
    \/ \E i \in DOMAIN calls : ExecuteQueryCatch(i)
    \/ \E i \in DOMAIN calls : ExecuteConfirmedResume(i)
    \/ Restart

Spec == Init /\ [][Next]_vars

\* ------------------------------------------------------------------------
\* A session that already holds a transcript of earlier turns
\* ------------------------------------------------------------------------
\* earlier turns in the transcript, and user events accepted from there on
MaxTurns == 6
MaxInputsAfterTurns == 2

\* how an earlier turn went: a question answered and confirmed, a question
\* whose generation failed, a command
TurnKinds == {"answered", "failed", "command"}

\* the messages the k-th turn left in the transcript
TurnMessages(kind, k) ==
    CASE kind = "answered" ->
           <<Message("user", <<"question ", ToString(k)>>),
             Message("log", <<"Generating SQL with AI...">>),
             Message("confirm", RawSelect1),
             Message("log", <<"Executing query...">>),
             [role |-> "assistant", content |-> RawSelect1,
              data |-> Some(Rows)]>>
      [] kind = "failed" ->
           <<Message("user", <<"question ", ToString(k)>>),
             Message("log", <<"Generating SQL with AI...">>),
             Message("error", <<"No SQL generated">>)>>
      [] OTHER ->
           <<Message("user", <<"/help ", ToString(k)>>),
             Message("system", <<"Commands:">>)>>

RECURSIVE Transcript(_, _)
Transcript(kinds, k) ==
    IF k > Len(kinds) THEN <<>>
    ELSE TurnMessages(kinds[k], k) \o Transcript(kinds, k + 1)

InitAfterTurns ==
    /\ apiKey = TRUE
    /\ presets = [id \in SourceIds |-> <<>>]
    /\ appState = "query"
    /\ selectedSource = Some(dataSources[1])
    /\ schema = Some(<<"schema of", dataSources[1].id>>)
    /\ schemaError = None
    /\ \E n \in 0..MaxTurns : \E kinds \in [1..n -> TurnKinds] :
           messages = addLogs(<<>>, <<<<"Schema loaded: ">>>>)
                      \o Transcript(kinds, 1)
    /\ isProcessing = FALSE
    /\ pendingQuery = None
    /\ lastExecutedSql = None
    /\ calls = <<>>
    /\ openConns = {}
    /\ connSeq = 0
    /\ inputsLeft = MaxInputsAfterTurns
    /\ restartsLeft = 0

NextAfterTurns ==
    \/ SubmitQuestion
    \/ \E i \in DOMAIN calls : GenerateQueryEntry(i)
    \/ \E i \in DOMAIN calls : GenerateQueryAnswer(i)
    \/ \E i \in DOMAIN calls : HandleSubmitResume(i)
    \/ PressN
    \/ SubmitNew
    \/ SubmitClear
    \/ SubmitHelp

SpecAfterTurns == InitAfterTurns /\ [][NextAfterTurns]_vars

\* ------------------------------------------------------------------------
\* The validator and the fence stripper called on their own
\* ------------------------------------------------------------------------
LowerChar(c) ==
    IF \E i \in 1..26 : UpperCase[i] = c
    THEN LowerCase[CHOOSE i \in 1..26 : UpperCase[i] = c]
    ELSE c
toLowerCase(s) == [i \in 1..Len(s) |-> LowerChar(s[i])]
Capitalised(s) == [i \in 1..Len(s) |-> IF i = 1 THEN s[i] ELSE LowerChar(s[i])]

\* arguments of isReadOnlyQuery: a beginning, a separator, a word and an end
ExecutionTime == <<"e","x","e","c","u","t","i","o","n","_","t","i","m","e">>
SqlHeads == {KwSelect, toLowerCase(KwSelect),
             <<" ", "\n">> \o Capitalised(KwWith), <<"x">>, <<>>}
SqlSeparators == {<<" ">>, <<"\n", "\t">>, <<"_">>, <<>>}
SqlWords ==
    UNION {{dangerousKeywords[k], toLowerCase(dangerousKeywords[k]),
            Capitalised(dangerousKeywords[k])} : k \in DOMAIN dangerousKeywords}
    \cup {<<"1">>, <<"x">>, ExecutionTime}
SqlTails == {<<>>, <<";">>, <<";", " ", "\n">>, <<";", "x">>, <<" ", "x">>,
             <<"_", "x">>, <<"x">>, <<";", " ">> \o RawSelect1}
ValidatorInputs ==
    {h \o p \o w \o t :
        h \in SqlHeads, p \in SqlSeparators, w \in SqlWords, t \in SqlTails}
    \cup {RawDrop}

\* arguments of cleanSqlResponse: up to MaxCleanTokens pieces in a row
MaxCleanTokens == 4
CleanTokens == {Fence, FenceSql, <<" ">>, <<"\n">>, RawSelect1, <<BackTick>>}
RECURSIVE Concat(_)
Concat(ts) == IF ts = <<>> THEN <<>> ELSE Head(ts) \o Concat(Tail(ts))
CleanInputs ==
    UNION {{Concat(ts) : ts \in [1..n -> CleanTokens]} : n \in 0..MaxCleanTokens}

InitFunctions ==
    /\ apiKey = FALSE
    /\ presets = [id \in SourceIds |-> <<>>]
    /\ appState = "manage-sources"
    /\ selectedSource = None
    /\ schema = None
    /\ schemaError = None
    /\ messages = <<>>
    /\ isProcessing = FALSE
    /\ pendingQuery = None
    /\ lastExecutedSql = None
    /\ \/ \E sql \in ValidatorInputs :
             calls = <<[NewCall("isReadOnlyQuery") EXCEPT !.sqlQuery = sql]>>
       \/ \E sql \in CleanInputs :
             calls = <<[NewCall("cleanSqlResponse") EXCEPT !.sqlQuery = sql]>>
    /\ openConns = {}
    /\ connSeq = 0
    /\ inputsLeft = 0
    /\ restartsLeft = 0

\* isReadOnlyQuery(sql) returns
IsReadOnlyQueryCall(i) ==
    LET c == calls[i] IN
    /\ c.kind = "isReadOnlyQuery" /\ c.pc = "entry"
    /\ calls' = [calls EXCEPT ![i] = [c EXCEPT
          !.pc = "returned",
          !.result = Some(isReadOnlyQuery(c.sqlQuery))]]
    /\ UNCHANGED <<apiKey, presets, appVars, uiVars, openConns, connSeq,
                   inputsLeft, restartsLeft>>

\* cleanSqlResponse(sql) returns
CleanSqlResponseCall(i) ==
    LET c == calls[i] IN
    /\ c.kind = "cleanSqlResponse" /\ c.pc = "entry"
    /\ calls' = [calls EXCEPT ![i] = [c EXCEPT
          !.pc = "cleaned",
          !.currentSql = cleanSqlResponse(c.sqlQuery)]]
    /\ UNCHANGED <<apiKey, presets, appVars, uiVars, openConns, connSeq,
                   inputsLeft, restartsLeft>>

\* cleanSqlResponse called on what it returned
CleanSqlResponseAgain(i) ==
    LET c == calls[i] IN
    /\ c.kind = "cleanSqlResponse" /\ c.pc = "cleaned"
    /\ calls' = [calls EXCEPT ![i] = [c EXCEPT
          !.pc = "returned",
          !.result = Some(cleanSqlResponse(c.currentSql))]]
    /\ UNCHANGED <<apiKey, presets, appVars, uiVars, openConns, connSeq,
                   inputsLeft, restartsLeft>>

NextFunctions ==
    \/ \E i \in DOMAIN calls : IsReadOnlyQueryCall(i)
    \/ \E i \in DOMAIN calls : CleanSqlResponseCall(i)
    \/ \E i \in DOMAIN calls : CleanSqlResponseAgain(i)

SpecFunctions == InitFunctions /\ [][NextFunctions]_vars

\* ------------------------------------------------------------------------
\* A connection object used on its own: queries, then calls of close
\* ------------------------------------------------------------------------
MaxConnOps == 3

InitConnection ==
    /\ apiKey = FALSE
    /\ presets = [id \in SourceIds |-> <<>>]
    /\ appState = "manage-sources"
    /\ selectedSource = None
    /\ schema = None
    /\ schemaError = None
    /\ messages = <<>>
    /\ isProcessing = FALSE
    /\ pendingQuery = None
    /\ lastExecutedSql = None
    /\ \E type \in {dataSources[k].type : k \in DOMAIN dataSources} :
          calls = <<[NewCall("connection") EXCEPT !.dbType = type]>>
    /\ openConns = {}
    /\ connSeq = 0
    /\ inputsLeft = 0
    /\ restartsLeft = 0

\* conn = await createConnection(connectionString)
ConnectionCreate(i) ==
    LET c == calls[i] IN
    /\ c.kind = "connection" /\ c.pc = "entry"
    /\ \E r \in createConnection(connSeq + 1, c.dbType) :
          IF IsSome(r.threw)
          THEN /\ calls' = [calls EXCEPT ![i] = [c EXCEPT
                     !.pc = "thrown", !.caught = r.threw]]
               /\ UNCHANGED <<openConns, connSeq>>
          ELSE /\ calls' = [calls EXCEPT ![i] = [c EXCEPT
                     !.pc = "querying", !.conn = r.conn]]
               /\ openConns' = Opened(openConns, Get(r.conn))
               /\ connSeq' = connSeq + 1
    /\ UNCHANGED <<apiKey, presets, appVars, uiVars, inputsLeft, restartsLeft>>

\* await conn.query(sql), before any close
ConnectionQuery(i) ==
    LET c == calls[i] IN
    /\ c.kind = "connection" /\ c.pc = "querying"
    /\ Len(c.outcomes) < MaxConnOps
    /\ \E r \in query(Get(c.conn)) :
          /\ calls' = [calls EXCEPT ![i] = [c EXCEPT
                !.conn = Some(r.conn),
                !.outcomes = Append(@, r.kind),
                !.errors = Append(@, r.threw)]]
          /\ openConns' = Opened(openConns, r.conn)
    /\ UNCHANGED <<apiKey, presets, appVars, uiVars, connSeq, inputsLeft,
                   restartsLeft>>

\* await conn.close()
ConnectionClose(i) ==
    LET c == calls[i] IN
    /\ c.kind = "connection" /\ c.pc \in {"querying", "closing"}
    /\ Len(c.outcomes) < MaxConnOps
    /\ \E r \in close(Get(c.conn)) :
          /\ calls' = [calls EXCEPT ![i] = [c EXCEPT
                !.pc = "closing",
                !.conn = Some(r.conn),
                !.outcomes = Append(@, IF IsSome(r.threw) THEN "close_failed"
                                                          ELSE "closed"),
                !.errors = Append(@, r.threw)]]
          /\ openConns' = Released(openConns, r.conn, r)
    /\ UNCHANGED <<apiKey, presets, appVars, uiVars, connSeq, inputsLeft,
                   restartsLeft>>

NextConnection ==
    \/ \E i \in DOMAIN calls : ConnectionCreate(i)
    \/ \E i \in DOMAIN calls : ConnectionQuery(i)
    \/ \E i \in DOMAIN calls : ConnectionClose(i)

SpecConnection == InitConnection /\ [][NextConnection]_vars

\* ------------------------------------------------------------------------
\* generateSQL and fixSQL called on their own, over what the provider does
\* ------------------------------------------------------------------------
\* completions: absent, empty, blank, bare, padded and fenced
Completions == {None, Some(<<>>), Some(<<" ", "\n">>), Some(RawSelect1),
                Some(<<" ">> \o RawSelect1 \o <<"\n">>), Some(RawFencedSelect2)}
StatusText == <<"Too Many Requests">>
ParseError == <<"Unexpected token">>
TypeError == <<"Cannot read properties of undefined">>

Behaviour(fetched, ok, json, message, choices, content, usage, error) ==
    [fetch |-> fetched, ok |-> ok, json |-> json, message |-> message,
     choices |-> choices, content |-> content, usage |-> usage,
     error |-> error]

\* fetch(): rejects; or resolves with a status, a body that parses or not,
\* and in the body an error message or the choices
FetchBehaviours ==
    {Behaviour("rejects", FALSE, "throws", None, "missing", None, FALSE, e) :
        e \in ErrorTexts}
    \cup {Behaviour("resolves", ok, "throws", None, "missing", None, FALSE, <<>>) :
        ok \in BOOLEAN}
    \cup {Behaviour("resolves", FALSE, "object", m, "missing", None, FALSE, <<>>) :
        m \in {None, Some(<<>>)} \cup {Some(e) : e \in ErrorTexts}}
    \cup {Behaviour("resolves", TRUE, "object", None, "missing", None, u, <<>>) :
        u \in BOOLEAN}
    \cup {Behaviour("resolves", TRUE, "object", None, "empty", None, u, <<>>) :
        u \in BOOLEAN}
    \cup {Behaviour("resolves", TRUE, "object", None, "present", t, u, <<>>) :
        t \in Completions, u \in BOOLEAN}

\* generateObject(): rejects; or resolves with an object that has a string sql
GenerateObjectBehaviours ==
    {Behaviour("rejects", FALSE, "throws", None, "missing", None, FALSE, e) :
        e \in ErrorTexts}
    \cup {Behaviour("resolves", TRUE, "object", None, "present", t, u, <<>>) :
        t \in Completions \ {None}, u \in BOOLEAN}

InitAiClient ==
    /\ apiKey = TRUE
    /\ presets = [id \in SourceIds |-> <<>>]
    /\ appState = "manage-sources"
    /\ selectedSource = None
    /\ schema = None
    /\ schemaError = None
    /\ messages = <<>>
    /\ isProcessing = FALSE
    /\ pendingQuery = None
    /\ lastExecutedSql = None
    /\ \E k \in {"generateSQL", "fixSQL"}, cl \in {"fetch", "generateObject"} :
       \E b \in (IF cl = "fetch" THEN FetchBehaviours
                                 ELSE GenerateObjectBehaviours) :
       \E h \in (IF k = "generateSQL"
                 THEN {<<>>, <<Message("user", Question)>>} ELSE {<<>>}) :
          calls = <<[NewCall(k) EXCEPT
                        !.client = cl, !.provider = b, !.history = h,
                        !.query = Question,
                        !.sqlQuery = RawSelect1,
                        !.lastError = Some(<<"e1">>)]>>
    /\ openConns = {}
    /\ connSeq = 0
    /\ inputsLeft = 0
    /\ restartsLeft = 0

AiPrefix(c) == IF c.kind = "generateSQL" THEN "Failed to generate SQL: "
                                         ELSE "Failed to fix SQL: "

\* a catch block that returns no error
CaughtResultWithoutError(prefix, e) == [sql |-> None, error |-> None]

\* catch (error): return {sql: null, error: prefix + error.message}
CaughtResult(prefix, e) == [sql |-> None, error |-> Some(<<prefix>> \o e)]

\* generateSQL, fixSQL: the lines logged before the try block, then the one
\* request inside it
AiClientSend(i) ==
    LET c == calls[i]
        lines == IF c.kind = "generateSQL"
                 THEN << <<"[AI Request] User query: ">> \o c.query,
                         <<"[AI Request] Schema tables: ">> >>
                      \o (IF Len(c.history) > 0
                          THEN << <<"[AI Request] Context: ",
                                    ToString(Len(c.history)),
                                    " previous messages">> >>
                          ELSE <<>>)
                 ELSE << <<"[AI Request] Fixing SQL error: ">>
                            \o Get(c.lastError) >>
    IN
    /\ c.kind \in {"generateSQL", "fixSQL"} /\ c.pc = "entry"
    /\ calls' = [calls EXCEPT ![i] =
          IF c.provider.fetch = "rejects"
          THEN [c EXCEPT !.pc = "catch", !.sent = @ + 1, !.logs = @ \o lines,
                         !.caught = Some(c.provider.error)]
          ELSE [c EXCEPT !.pc = "response", !.sent = @ + 1,
                         !.logs = @ \o lines]]
    /\ UNCHANGED <<apiKey, presets, appVars, uiVars, openConns, connSeq,
                   inputsLeft, restartsLeft>>

\* generateSQL, fixSQL: the rest of the try block once the request resolved
AiClientResponse(i) ==
    LET c == calls[i]
        b == c.provider
        gen == c.kind = "generateSQL"
        errorMsg == <<"OpenRouter API error: ">>
                    \o (IF IsSome(b.message) /\ Get(b.message) # <<>>
                        THEN Get(b.message) ELSE StatusText)
        sql == IF b.choices = "empty" \/ IsNone(b.content) THEN None
               ELSE IF c.client = "fetch" THEN Some(trim(Get(b.content)))
               ELSE b.content
        shown == IF IsSome(sql) THEN Get(sql) ELSE <<"undefined">>
        tokens == IF b.usage THEN << <<"[AI Response] Tokens: ">> >> ELSE <<>>
        lines == IF gen
                 THEN << <<"[AI Response] Model: ">> >> \o tokens
                      \o << <<"[AI Response] Generated SQL: ">> \o shown >>
                 ELSE (IF c.client = "fetch" THEN <<>> ELSE tokens)
                      \o << <<"[AI Response] Fixed SQL: ">> \o shown >>
    IN
    /\ c.kind \in {"generateSQL", "fixSQL"} /\ c.pc = "response"
    /\ calls' = [calls EXCEPT ![i] =
          IF b.json = "throws"
          THEN [c EXCEPT !.pc = "catch", !.caught = Some(ParseError)]
          ELSE IF ~b.ok
          THEN [c EXCEPT !.pc = "returned",
                   !.logs = @ \o (IF gen THEN << <<"[AI Error] ">> \o errorMsg >>
                                         ELSE <<>>),
                   !.result = Some([sql |-> None, error |-> Some(errorMsg)])]
          ELSE IF b.choices = "missing"
          THEN [c EXCEPT !.pc = "catch", !.caught = Some(TypeError)]
          ELSE IF IsNone(sql) \/ Get(sql) = <<>>
          THEN [c EXCEPT !.pc = "returned",
                   !.logs = @ \o lines
                            \o (IF gen THEN << <<"[AI Error] No SQL generated">> >>
                                       ELSE <<>>),
                   !.result = Some([sql |-> None,
                                    error |-> Some(<<"No SQL generated">>)])]
          ELSE [c EXCEPT !.pc = "returned",
                   !.logs = @ \o lines,
                   !.result = Some([sql |-> sql, error |-> None])]]
    /\ UNCHANGED <<apiKey, presets, appVars, uiVars, openConns, connSeq,
                   inputsLeft, restartsLeft>>

\* generateSQL, fixSQL: the catch block
AiClientCatch(i) ==
    LET c == calls[i] IN
    /\ c.kind \in {"generateSQL", "fixSQL"} /\ c.pc = "catch"
    /\ calls' = [calls EXCEPT ![i] = [c EXCEPT
          !.pc = "returned",
          !.logs = Append(@, <<"[AI Error] ">> \o Get(c.caught)),
          !.result = Some(CaughtResult(AiPrefix(c), Get(c.caught)))]]
    /\ UNCHANGED <<apiKey, presets, appVars, uiVars, openConns, connSeq,
                   inputsLeft, restartsLeft>>

NextAiClient ==
    \/ \E i \in DOMAIN calls : AiClientSend(i)
    \/ \E i \in DOMAIN calls : AiClientResponse(i)
    \/ \E i \in DOMAIN calls : AiClientCatch(i)

SpecAiClient == InitAiClient /\ [][NextAiClient]_vars

\* ------------------------------------------------------------------------
\* getSchema called on its own, over databases with known contents
\* ------------------------------------------------------------------------
\* an object keyed by table name, as a sequence in insertion order
HasKey(obj, name) == \E k \in DOMAIN obj : obj[k].table = name
GetKey(obj, name) == obj[CHOOSE k \in DOMAIN obj : obj[k].table = name].columns
SetKey(obj, name, columns) ==
    IF HasKey(obj, name)
    THEN [k \in DOMAIN obj |->
            IF obj[k].table = name
            THEN [table |-> name, columns |-> columns] ELSE obj[k]]
    ELSE Append(obj, [table |-> name, columns |-> columns])

\* names that {} answers from Object.prototype, among them
ObjectPrototype ==
    {<<"c","o","n","s","t","r","u","c","t","o","r">>,
     <<"t","o","S","t","r","i","n","g">>,
     <<"v","a","l","u","e","O","f">>,
     <<"_","_","p","r","o","t","o","_","_">>}
NotAFunction == <<"schema[tableName].push is not a function">>

\* formatSchema: group the rows by table_name, keeping their order;
\* schema[tableName] of a name the object does not hold itself is what the
\* prototype holds, which is truthy and has no push
RECURSIVE FormatRows(_, _)
FormatRows(obj, rows) ==
    IF rows = <<>> THEN [schema |-> obj, threw |-> None]
    ELSE LET row == Head(rows)
             held == IF HasKey(obj, row.table_name)
                     THEN GetKey(obj, row.table_name) ELSE <<>>
         IN IF ~HasKey(obj, row.table_name)
               /\ row.table_name \in ObjectPrototype
            THEN [schema |-> obj, threw |-> Some(NotAFunction)]
            ELSE FormatRows(
                   SetKey(obj, row.table_name,
                          Append(held, [column |-> row.column_name,
                                        type |-> row.data_type])),
                   Tail(rows))
formatSchema(rows) == FormatRows(<<>>, rows)

\* the SQL operator LIKE: % stands for any run of characters, _ for any one
\* character, and letters match without regard to case
RECURSIVE Like(_, _)
Like(s, pattern) ==
    IF pattern = <<>> THEN s = <<>>
    ELSE IF Head(pattern) = "%"
    THEN \E k \in 0..Len(s) : Like(SubSeq(s, k + 1, Len(s)), Tail(pattern))
    ELSE /\ s # <<>>
         /\ Head(pattern) = "_" \/ LowerChar(Head(s)) = LowerChar(Head(pattern))
         /\ Like(Tail(s), Tail(pattern))
SqlitePattern == <<"s","q","l","i","t","e","_","%">>

\* a name that can stand unquoted in a statement
IsBareIdentifier(name) ==
    /\ name # <<>>
    /\ \A k \in 1..Len(name) : IsWordChar(name[k])
    /\ Head(name) \notin Digits

\* what a database can hold: tables with their columns in declared order,
\* and objects that are not tables
MaxCatalog == 3
Column(name, type) == [name |-> name, type |-> type]
CatalogEntries == {
    [type |-> "table", name |-> <<"u","s","e","r","s">>,
     columns |-> <<Column("id", "INTEGER"), Column("name", "TEXT")>>],
    [type |-> "table", name |-> <<"s","q","l","i","t","e","_","s","e","q","u","e","n","c","e">>,
     columns |-> <<Column("name", ""), Column("seq", "")>>],
    [type |-> "table", name |-> <<"s","q","l","i","t","e","3","_","l","o","g","s">>,
     columns |-> <<Column("line", "TEXT")>>],
    [type |-> "table", name |-> <<"m","y"," ","t","a","b","l","e">>,
     columns |-> <<Column("x", "TEXT")>>],
    [type |-> "index", name |-> <<"u","s","e","r","s","_","i","d","x">>,
     columns |-> <<>>],
    [type |-> "view", name |-> <<"v">>,
     columns |-> <<Column("id", "INTEGER")>>] }
Catalogs ==
    UNION {{cat \in [1..n -> CatalogEntries] :
                \A a, b \in 1..n : a # b => cat[a].name # cat[b].name} :
           n \in 0..MaxCatalog}
Dialects == {"postgres", "postgresql", "mysql", "sqlite", "oracle"}
SyntaxError == <<"syntax error">>

\* rows of information_schema.columns, one per column
RECURSIVE ColumnRows(_)
ColumnRows(cat) ==
    IF cat = <<>> THEN <<>>
    ELSE [k \in DOMAIN Head(cat).columns |->
            [table_name |-> Head(cat).name,
             column_name |-> Head(cat).columns[k].name,
             data_type |-> Head(cat).columns[k].type]]
         \o ColumnRows(Tail(cat))

\* SELECT name FROM sqlite_master WHERE type='table' AND name NOT LIKE 'sqlite_%'
SqliteMasterRows(cat) ==
    LET kept == SelectSeq(cat, LAMBDA e :
                    e.type = "table" /\ ~Like(e.name, SqlitePattern))
    IN [k \in DOMAIN kept |-> kept[k].name]

\* PRAGMA table_info(name): the columns of the table in declared order
TableInfo(cat, name) ==
    LET hits == SelectSeq(cat, LAMBDA e : e.name = name)
    IN IF hits = <<>> THEN <<>> ELSE hits[1].columns

InitGetSchema ==
    /\ apiKey = FALSE
    /\ presets = [id \in SourceIds |-> <<>>]
    /\ appState = "manage-sources"
    /\ selectedSource = None
    /\ schema = None
    /\ schemaError = None
    /\ messages = <<>>
    /\ isProcessing = FALSE
    /\ pendingQuery = None
    /\ lastExecutedSql = None
    /\ \E cat \in Catalogs, d \in Dialects :
          calls = <<[NewCall("getSchema") EXCEPT !.catalog = cat, !.dbType = d]>>
    /\ openConns = {}
    /\ connSeq = 0
    /\ inputsLeft = 0
    /\ restartsLeft = 0

\* getSchema, postgres/postgresql and mysql: one query on
\* information_schema.columns, then formatSchema
GetSchemaInformationSchema(i) ==
    LET c == calls[i] IN
    /\ c.kind = "getSchema" /\ c.pc = "entry"
    /\ c.dbType \in {"postgres", "postgresql", "mysql"}
    /\ \/ LET r == formatSchema(ColumnRows(c.catalog)) IN
             calls' = [calls EXCEPT ![i] =
               IF IsSome(r.threw)
               THEN [c EXCEPT
                       !.pc = "thrown",
                       !.executed = Append(@, <<"information_schema.columns">>),
                       !.caught = r.threw]
               ELSE [c EXCEPT
                       !.pc = "returned",
                       !.executed = Append(@, <<"information_schema.columns">>),
                       !.result = Some(r.schema)]]
       \/ \E e \in ErrorTexts :
             calls' = [calls EXCEPT ![i] = [c EXCEPT
               !.pc = "thrown",
               !.executed = Append(@, <<"information_schema.columns">>),
               !.caught = Some(e)]]
    /\ UNCHANGED <<apiKey, presets, appVars, uiVars, openConns, connSeq,
                   inputsLeft, restartsLeft>>

\* getSchema, sqlite: tableList = await conn.query(... sqlite_master ...)
GetSchemaTableList(i) ==
    LET c == calls[i] IN
    /\ c.kind = "getSchema" /\ c.pc = "entry"
    /\ c.dbType = "sqlite"
    /\ \/ calls' = [calls EXCEPT ![i] = [c EXCEPT
               !.pc = "tables",
               !.executed = Append(@, <<"sqlite_master">>),
               !.tableList = SqliteMasterRows(c.catalog),
               !.snapshot = <<>>]]
       \/ \E e \in ErrorTexts :
             calls' = [calls EXCEPT ![i] = [c EXCEPT
               !.pc = "thrown",
               !.executed = Append(@, <<"sqlite_master">>),
               !.caught = Some(e)]]
    /\ UNCHANGED <<apiKey, presets, appVars, uiVars, openConns, connSeq,
                   inputsLeft, restartsLeft>>

\* getSchema, sqlite: one turn of the loop, PRAGMA table_info(name) with the
\* name put into the statement as it is
GetSchemaTableInfo(i) ==
    LET c == calls[i]
        name == Head(c.tableList)
        columns == TableInfo(c.catalog, name)
        statement == <<"PRAGMA table_info(">> \o name \o <<")">>
    IN
    /\ c.kind = "getSchema" /\ c.pc = "tables"
    /\ c.tableList # <<>>
    /\ \/ /\ IsBareIdentifier(name)
          /\ calls' = [calls EXCEPT ![i] = [c EXCEPT
               !.executed = Append(@, statement),
               !.tableList = Tail(@),
               !.snapshot = SetKey(@, name,
                   [k \in DOMAIN columns |->
                       [column |-> columns[k].name, type |-> columns[k].type]])]]
       \/ \E e \in (IF IsBareIdentifier(name) THEN ErrorTexts ELSE {SyntaxError}) :
             calls' = [calls EXCEPT ![i] = [c EXCEPT
               !.pc = "thrown",
               !.executed = Append(@, statement),
               !.caught = Some(e)]]
    /\ UNCHANGED <<apiKey, presets, appVars, uiVars, openConns, connSeq,
                   inputsLeft, restartsLeft>>

\* getSchema, sqlite: return schema after the loop
GetSchemaReturn(i) ==
    LET c == calls[i] IN
    /\ c.kind = "getSchema" /\ c.pc = "tables"
    /\ c.tableList = <<>>
    /\ calls' = [calls EXCEPT ![i] = [c EXCEPT
          !.pc = "returned", !.result = Some(c.snapshot)]]
    /\ UNCHANGED <<apiKey, presets, appVars, uiVars, openConns, connSeq,
                   inputsLeft, restartsLeft>>

\* getSchema, any other dbType: return {}
GetSchemaOtherDialect(i) ==
    LET c == calls[i] IN
    /\ c.kind = "getSchema" /\ c.pc = "entry"
    /\ c.dbType \notin {"postgres", "postgresql", "mysql", "sqlite"}
    /\ calls' = [calls EXCEPT ![i] = [c EXCEPT
          !.pc = "returned", !.result = Some(<<>>)]]
    /\ UNCHANGED <<apiKey, presets, appVars, uiVars, openConns, connSeq,
                   inputsLeft, restartsLeft>>

NextGetSchema ==
    \/ \E i \in DOMAIN calls : GetSchemaInformationSchema(i)
    \/ \E i \in DOMAIN calls : GetSchemaTableList(i)
    \/ \E i \in DOMAIN calls : GetSchemaTableInfo(i)
    \/ \E i \in DOMAIN calls : GetSchemaReturn(i)
    \/ \E i \in DOMAIN calls : GetSchemaOtherDialect(i)

SpecGetSchema == InitGetSchema /\ [][NextGetSchema]_vars

\* ------------------------------------------------------------------------
\* Properties
\* ------------------------------------------------------------------------
ExecCalls == {calls[i] : i \in {j \in DOMAIN calls : calls[j].kind = "exec"}}
Requests == {j \in DOMAIN calls : calls[j].kind \in {"gen", "exec"}}
Range(f) == {f[k] : k \in DOMAIN f}

\* every SQL text that can occur, raw or cleaned, and those of them that
\* isReadOnlyQuery accepts
SqlTexts == AiOutputs \cup {cleanSqlResponse(raw) : raw \in AiOutputs}
ReadOnlySqlTexts == {sql \in SqlTexts : isReadOnlyQuery(sql)}

\* what executeQuery makes of the SQL of a fixSQL result
CleanedFix ==
    [r \in FixResults |->
        IF IsSome(r.sql) THEN cleanSqlResponse(Get(r.sql)) ELSE <<>>]

\* fixSQL answered r with SQL that passes, or fails, the read-only validator
FixAccepted(r) == IsSome(r.sql) /\ CleanedFix[r] \in ReadOnlySqlTexts
FixRejected(r) == IsSome(r.sql) /\ CleanedFix[r] \notin ReadOnlySqlTexts

\* C1: every SQL string executeQuery has passed to conn.query, the initial
\* one (generated, or recalled from a preset) and every repaired one, is
\* accepted by isReadOnlyQuery.
C1_ExecutedSqlIsReadOnly ==
    \A c \in ExecCalls :
        \A k \in DOMAIN c.executed : c.executed[k] \in ReadOnlySqlTexts

\* a query recalled with /presets 1 is running and a repaired SQL has been
\* executed for it
C1_Witness ==
    /\ Message("user", <<"/presets ", "1">>) \in Range(messages)
    /\ \E c \in ExecCalls : Len(c.executed) >= 2

\* C2: when the statement fails at the database on every attempt and nothing
\* else fails (every connection opens and closes, every repair returns SQL
\* that passes validation), there are never more than 3 attempts, and
\* executeQuery returns after exactly 3 executions and exactly 2 repairs with
\* error "Query failed after 3 attempts: <error of the third attempt>",
\* data = null.
C2_AlwaysFailing(c) ==
    /\ Len(c.outcomes) >= 1
    /\ \A k \in DOMAIN c.outcomes : c.outcomes[k] = "statement_failed"
    /\ \A k \in DOMAIN c.fixes : FixAccepted(c.fixes[k])

C2_ThreeAttemptsThenFailed ==
    \A c \in ExecCalls :
        C2_AlwaysFailing(c) =>
            /\ Len(c.outcomes) <= 3
            /\ Len(c.outcomes) = 3 => c.pc \in {"catch", "returned", "thrown"}
            /\ c.pc = "returned" =>
                  /\ Len(c.executed) = 3
                  /\ Len(c.repairs) = 2
                  /\ Get(c.result).error =
                         Some(<<"Query failed after ", "3", " attempts: ">>
                              \o Get(c.errors[3]))
                  /\ Get(c.result).data = None

\* three failing statements with different errors on the first and the third
C2_Witness ==
    \E c \in ExecCalls :
        /\ C2_AlwaysFailing(c)
        /\ c.pc = "returned"
        /\ c.errors[1] # c.errors[3]

\* C3: a failure to establish the connection in attempt k ends executeQuery
\* with the connection error: attempt k is the last one, no repair follows
\* it, and the result is "Failed to connect: <error>".
C3_ConnectionFailureIsTerminal ==
    \A c \in ExecCalls :
        \A k \in DOMAIN c.outcomes :
            c.outcomes[k] = "connect_failed" =>
                /\ k = Len(c.outcomes)
                /\ Len(c.repairs) < k
                /\ c.pc \in {"catch", "returned"}
                /\ c.pc = "returned" =>
                      Get(c.result).error =
                          Some(<<"Failed to connect: ">> \o Get(c.errors[k]))

\* C4: when the k-th fixSQL call returns an error, executeQuery has returned
\* exactly that error: no repair, no connection and no statement follows.
C4_RepairErrorIsTerminal ==
    \A c \in ExecCalls :
        \A k \in DOMAIN c.fixes :
            IsSome(c.fixes[k].error) =>
                /\ k = Len(c.fixes)
                /\ c.pc = "returned"
                /\ Get(c.result).error = c.fixes[k].error
                /\ Get(c.result).data = None
                /\ Len(c.repairs) = k
                /\ Len(c.connIds) = k
                /\ Len(c.executed) = k
                /\ \A j \in DOMAIN c.connIds : c.connIds[j] \notin openConns

\* the repair before the third attempt returned an error
C4_Witness ==
    \E c \in ExecCalls : Len(c.fixes) = 2 /\ IsSome(c.fixes[2].error)

\* C5: when the k-th fixSQL call returns SQL that fails isReadOnlyQuery,
\* executeQuery has returned the validation error: the rejected SQL is not
\* executed, and no repair, no connection and no statement follows.
C5_RejectedRepairIsTerminal ==
    \A c \in ExecCalls :
        \A k \in DOMAIN c.fixes :
            FixRejected(c.fixes[k]) =>
                /\ k = Len(c.fixes)
                /\ c.pc = "returned"
                /\ Get(c.result).error = Some(<<"Only SELECT queries are allowed">>)
                /\ Get(c.result).data = None
                /\ Len(c.repairs) = k
                /\ Len(c.connIds) = k
                /\ Len(c.executed) = k
                /\ \A j \in DOMAIN c.executed :
                       c.executed[j] # CleanedFix[c.fixes[k]]

\* the repair before the third attempt returned SQL the validator rejects
C5_Witness ==
    \E c \in ExecCalls : Len(c.fixes) = 2 /\ FixRejected(c.fixes[2])

\* C6: at most one connection is open at any time; an open connection is the
\* one constructed for the attempt that is now between its connect and the
\* end of its close (or whose close itself threw); every attempt has a
\* connection object of its own; and no connection of an operation that has
\* returned is open.
C6_InAttempt(c) ==
    \/ c.pc \in {"query", "getSchema", "close_try", "catch"}
    \/ c.pc = "thrown" /\ c.caught = Some(CloseError)

C6_ConnectionsClosed ==
    /\ Cardinality(openConns) <= 1
    /\ \A id \in openConns :
           \E c \in Range(calls) :
               /\ C6_InAttempt(c)
               /\ c.connIds # <<>>
               /\ c.connIds[Len(c.connIds)] = id
    /\ \A c \in Range(calls) :
           /\ \A j, k \in DOMAIN c.connIds : j # k => c.connIds[j] # c.connIds[k]
           /\ c.kind = "exec" /\ c.pc \in {"query", "close_try", "catch"}
                  => /\ Len(c.connIds) = c.attempt
                     /\ Get(c.conn).id = c.connIds[c.attempt]
           /\ c.pc = "returned" =>
                  \A j \in DOMAIN c.connIds : c.connIds[j] \notin openConns

\* executeQuery has returned after three attempts that opened a connection
\* each, and nothing is open
C6_Witness ==
    /\ openConns = {}
    /\ \E c \in ExecCalls :
           /\ c.pc = "returned"
           /\ Len(c.connIds) = 3
           /\ \A k \in 1..3 : c.outcomes[k] \in {"statement_failed", "close_failed"}

\* C7: executeQuery never ends with an exception: every outcome is returned
\* as an {error, sql, data} object.
C7_NoUncaughtFault ==
    \A c \in ExecCalls : c.pc # "thrown"

\* C8: a generation or execution request that has ended with an error has
\* its error as the last message of the transcript and leaves the session
\* accepting input (not processing, nothing pending), also when its handler
\* ended with the exception of the request.
C8_ErrorShownAndSessionUsable ==
    \A j \in Requests :
        calls[j].pc = "thrown" =>
            /\ isProcessing = FALSE
            /\ pendingQuery = None
            /\ messages # <<>>
            /\ messages[Len(messages)].role = "error"

\* C9: at most one generation or execution request exists at a time, and
\* while one exists the session is processing and nothing is pending; a
\* request starts only from the idle session, an execution only by taking
\* the pending query, which is thereby cleared; no user event has an effect
\* while the session is processing, and while a query is pending the only
\* events with an effect are the key presses that clear it.
C9_Exclusive ==
    /\ Cardinality(Requests) <= 1
    /\ Requests # {} => isProcessing /\ IsNone(pendingQuery)

C9_StartsFromIdle ==
    Len(calls') > Len(calls) /\ calls'[Len(calls')].kind \in {"gen", "exec"} =>
        /\ Requests = {}
        /\ ~isProcessing
        /\ calls'[Len(calls')].kind = "gen" => IsNone(pendingQuery)
        /\ calls'[Len(calls')].kind = "exec" =>
               /\ IsSome(pendingQuery)
               /\ calls'[Len(calls')].sqlQuery = Get(pendingQuery).sql
               /\ pendingQuery' = None

\* a step of the query screen that consumes a user event
C9_UserEvent ==
    appState = "query" /\ inputsLeft' < inputsLeft /\ restartsLeft' = restartsLeft

C9_RejectedWhileBusy ==
    C9_UserEvent =>
        /\ ~isProcessing
        /\ IsSome(pendingQuery) =>
               /\ pendingQuery' = None
               /\ \/ calls' = calls /\ ~isProcessing'
                  \/ Len(calls') = Len(calls) + 1
                     /\ calls'[Len(calls')].kind = "exec"

C9_OneRequestInFlight ==
    /\ [](C9_Exclusive)
    /\ [][C9_StartsFromIdle /\ C9_RejectedWhileBusy]_vars

\* an execution is running while the user may still type
C9_Witness ==
    /\ inputsLeft > 0
    /\ \E c \in ExecCalls : c.pc = "query"

\* C10: the attempt number of executeQuery's loop is between 1 and 3; one
\* call passes at most 3 statements to the database, calls fixSQL at most
\* twice, and never calls fixSQL more often than executions have failed (a
\* conn.query that raised, be it on its lazy connect or on the statement).
C10_FailedExecutions(c) ==
    {k \in DOMAIN c.outcomes :
        c.outcomes[k] \in {"statement_failed", "connect_failed"}}

C10_AttemptBounds ==
    \A c \in ExecCalls :
        /\ c.attempt \in 0..3
        /\ c.attempt = 0 => c.pc \in {"entry", "returned", "thrown"}
                            /\ c.executed = <<>> /\ c.repairs = <<>>
        /\ Len(c.outcomes) <= c.attempt
        /\ Len(c.executed) <= 3
        /\ Len(c.repairs) <= 2
        /\ Len(c.repairs) <= Cardinality(C10_FailedExecutions(c))

\* text sub occurs in text s
Contains(s, sub) ==
    \E i \in 0..(Len(s) - Len(sub)) : SubSeq(s, i + 1, i + Len(sub)) = sub

\* C11: when executeQuery returns, the lines it passed to onLog show every
\* attempt: the SQL of the attempt, that it succeeded (the row count line)
\* or failed, and on failure, a connection failure included, the error text.
C11_AttemptsLogged ==
    \A c \in ExecCalls :
        c.pc = "returned" =>
            /\ \A k \in DOMAIN c.executed :
                   \E j \in DOMAIN c.logs : Contains(c.logs[j], c.executed[k])
            /\ \A k \in DOMAIN c.outcomes :
                   IF c.outcomes[k] = "succeeded"
                   THEN \E j \in DOMAIN c.logs :
                            Contains(c.logs[j], <<"Query returned ">>)
                   ELSE \E j \in DOMAIN c.logs :
                            Contains(c.logs[j], Get(c.errors[k]))

\* C12: the history handed to a generation request is made of the most
\* recent user and assistant messages of the transcript, at most 10 of them,
\* oldest first, as {role, content}; no message of another role is in it.
C12_Turns(msgs) ==
    {j \in DOMAIN msgs : msgs[j].role \in {"user", "assistant"}}

C12_HistoryOf(h, msgs) ==
    LET turns == C12_Turns(msgs)
        \* the turn that has exactly n turns after it
        nthLast(n) == CHOOSE j \in turns :
                          Cardinality({l \in turns : l > j}) = n
    IN /\ Len(h) = IF Cardinality(turns) < 10 THEN Cardinality(turns) ELSE 10
       /\ \A k \in DOMAIN h :
              /\ h[k].role \in {"user", "assistant"}
              /\ h[k] = [role |-> msgs[nthLast(Len(h) - k)].role,
                         content |-> msgs[nthLast(Len(h) - k)].content]

C12_GenerationStarts ==
    /\ Len(calls') = Len(calls) + 1
    /\ calls'[Len(calls')].kind = "gen"

C12_HistoryIsLastTenTurns ==
    [][C12_GenerationStarts =>
          C12_HistoryOf(calls'[Len(calls')].history, messages)]_vars

\* a generation is running with a history of 10 turns, cut from a transcript
\* that held more than 10 (its own question is the newest user message)
C12_Witness ==
    \E j \in Requests :
        /\ calls[j].kind = "gen"
        /\ Len(calls[j].history) = 10
        /\ Cardinality(C12_Turns(messages)) > 11
        /\ \E l \in DOMAIN messages : messages[l].role = "system"

\* the calls of isReadOnlyQuery that have returned
ValidatorReturns ==
    {calls[i] : i \in {j \in DOMAIN calls :
        calls[j].kind = "isReadOnlyQuery" /\ calls[j].pc = "returned"}}

\* the positions where a statement of s begins, and those of them whose
\* statement holds something other than white space
StatementStarts(s) == {i \in 1..(Len(s) + 1) : i = 1 \/ s[i - 1] = ";"}
NonEmptyStatements(s) ==
    {i \in StatementStarts(s) :
        \E j \in i..Len(s) :
            /\ s[j] \notin WhiteSpace \cup {";"}
            /\ \A l \in i..j : s[l] # ";"}

\* the words of s: its maximal runs of letters, digits and underscores
WordAt(s, i, j) ==
    /\ i <= j
    /\ \A l \in i..j : IsWordChar(s[l])
    /\ (i = 1 \/ ~IsWordChar(s[i - 1]))
    /\ (j = Len(s) \/ ~IsWordChar(s[j + 1]))
WordsOf(s) ==
    {SubSeq(s, p[1], p[2]) :
        p \in {q \in (1..Len(s)) \X (1..Len(s)) : WordAt(s, q[1], q[2])}}
KeywordsFolded == {toLowerCase(dangerousKeywords[k]) : k \in DOMAIN dangerousKeywords}
HasKeywordWord(s) == \E w \in WordsOf(s) : toLowerCase(w) \in KeywordsFolded
HasKeywordInside(s) ==
    \E w \in WordsOf(s) : \E kw \in KeywordsFolded :
        /\ toLowerCase(w) # kw
        /\ Contains(toLowerCase(w), kw)

\* s begins, after its leading white space, with SELECT or WITH in any case
BeginsWithSelectOrWith(s) ==
    \E p \in 1..Len(s) : \E kw \in {KwSelect, KwWith} :
        /\ \A l \in 1..(p - 1) : s[l] \in WhiteSpace
        /\ Len(s) >= p + Len(kw) - 1
        /\ toLowerCase(SubSeq(s, p, p + Len(kw) - 1)) = toLowerCase(kw)

\* C13: isReadOnlyQuery answers false for every text with more than one
\* non-empty statement between semicolons, and answers true for a text that
\* holds a semicolon but one statement only, begins with SELECT or WITH and
\* has no forbidden word
C13_OneStatementOnly ==
    \A c \in ValidatorReturns :
        /\ Cardinality(NonEmptyStatements(c.sqlQuery)) > 1
               => c.result = Some(FALSE)
        /\ ( /\ \E i \in 1..Len(c.sqlQuery) : c.sqlQuery[i] = ";"
              /\ Cardinality(NonEmptyStatements(c.sqlQuery)) = 1
              /\ BeginsWithSelectOrWith(c.sqlQuery)
              /\ ~HasKeywordWord(c.sqlQuery) )
               => c.result = Some(TRUE)

\* two harmless statements have been given and the answer has come back
C13_Witness ==
    \E c \in ValidatorReturns :
        /\ Cardinality(NonEmptyStatements(c.sqlQuery)) > 1
        /\ BeginsWithSelectOrWith(c.sqlQuery)
        /\ ~HasKeywordWord(c.sqlQuery)

\* C14: isReadOnlyQuery answers false for every text in which one of the
\* seventeen forbidden keywords stands as a whole word, in any letter case;
\* a keyword that is only part of a longer identifier does not make the
\* answer false
C14_KeywordAsWholeWord ==
    \A c \in ValidatorReturns :
        /\ HasKeywordWord(c.sqlQuery) => c.result = Some(FALSE)
        /\ ( /\ HasKeywordInside(c.sqlQuery)
              /\ ~HasKeywordWord(c.sqlQuery)
              /\ Cardinality(NonEmptyStatements(c.sqlQuery)) <= 1
              /\ BeginsWithSelectOrWith(c.sqlQuery) )
               => c.result = Some(TRUE)

\* a keyword not in upper case has been given as a whole word in one
\* statement that begins with SELECT or WITH
C14_Witness ==
    \E c \in ValidatorReturns :
        /\ \E w \in WordsOf(c.sqlQuery) :
              toLowerCase(w) \in KeywordsFolded /\ w \notin Range(dangerousKeywords)
        /\ Cardinality(NonEmptyStatements(c.sqlQuery)) <= 1
        /\ BeginsWithSelectOrWith(c.sqlQuery)

\* C15: isReadOnlyQuery answers true only for a text that begins with SELECT
\* or WITH once white space and letter case are set aside, and for one
\* statement without a forbidden word it answers true exactly then
C15_SelectOrWithFirst ==
    \A c \in ValidatorReturns :
        /\ c.result = Some(TRUE) => BeginsWithSelectOrWith(c.sqlQuery)
        /\ ( /\ Cardinality(NonEmptyStatements(c.sqlQuery)) <= 1
              /\ ~HasKeywordWord(c.sqlQuery) )
               => (c.result = Some(TRUE) <=> BeginsWithSelectOrWith(c.sqlQuery))

\* a text that begins with SELECT or WITH only after folding case or
\* dropping leading white space has been accepted
C15_Witness ==
    \E c \in ValidatorReturns :
        /\ c.result = Some(TRUE)
        /\ ~startsWith(c.sqlQuery, KwSelect)
        /\ ~startsWith(c.sqlQuery, KwWith)

\* C16: cleanSqlResponse applied to its own result gives that result again
C16_Idempotent ==
    \A i \in DOMAIN calls :
        (calls[i].kind = "cleanSqlResponse" /\ calls[i].pc = "returned")
            => calls[i].result = Some(calls[i].currentSql)

\* the calls of getSchema
SchemaCalls == {calls[i] : i \in {j \in DOMAIN calls : calls[j].kind = "getSchema"}}
ReservedPrefix == <<"s","q","l","i","t","e","_">>
UserTables(cat) ==
    {cat[k] : k \in {j \in DOMAIN cat :
        cat[j].type = "table" /\ ~startsWith(toLowerCase(cat[j].name), ReservedPrefix)}}

\* C17: for sqlite, what getSchema returns has exactly the tables of the
\* database whose names do not begin with sqlite_ as its keys, each with its
\* columns in declared order; for an unrecognized dbType it returns the
\* empty object, sends no statement and throws nothing
C17_SqliteSnapshot ==
    \A c \in SchemaCalls :
        /\ (c.dbType = "sqlite" /\ c.pc = "returned") =>
              LET snap == Get(c.result) IN
              /\ {snap[k].table : k \in DOMAIN snap}
                     = {t.name : t \in UserTables(c.catalog)}
              /\ \A k \in DOMAIN snap : \A t \in UserTables(c.catalog) :
                     t.name = snap[k].table =>
                        snap[k].columns =
                            [n \in DOMAIN t.columns |->
                                [column |-> t.columns[n].name,
                                 type |-> t.columns[n].type]]
        /\ (c.dbType \notin {"postgres", "postgresql", "mysql", "sqlite"}
               /\ c.pc # "entry") =>
              /\ c.pc = "returned"
              /\ c.result = Some(<<>>)
              /\ c.executed = <<>>

\* the calls of generateSQL and fixSQL
AiCalls ==
    {calls[i] : i \in {j \in DOMAIN calls :
        calls[j].kind \in {"generateSQL", "fixSQL"}}}
TransportFailure(c) == c.provider.fetch = "rejects"
UnparsableResponse(c) ==
    /\ c.provider.fetch = "resolves"
    /\ c.provider.json = "throws" \/ (c.provider.ok /\ c.provider.choices = "missing")
EmptyCompletion(c) ==
    /\ c.provider.fetch = "resolves" /\ c.provider.ok
    /\ c.provider.json = "object" /\ c.provider.choices # "missing"
    /\ \/ c.provider.choices = "empty"
       \/ IsNone(c.provider.content)
       \/ /\ c.client = "fetch"
          /\ \A k \in DOMAIN Get(c.provider.content) :
                 Get(c.provider.content)[k] \in WhiteSpace
       \/ Get(c.provider.content) = <<>>

FailedFetches ==
    {calls[i] : i \in {j \in DOMAIN calls :
        /\ calls[j].kind = "schema" /\ calls[j].pc = "returned"
        /\ IsSome(Get(calls[j].result).error)}}

\* C18: fetchSchema reports a connection that could not be established as
\* "Failed to connect: ...", and reports "Failed to fetch schema: ..." only
\* when a catalog query failed on a connection that was established
C18_ConnectFailureIsConnectError ==
    \A c \in FailedFetches :
        LET error == Get(Get(c.result).error)
            last == IF c.outcomes = <<>> THEN "connect_failed"
                    ELSE c.outcomes[Len(c.outcomes)]
        IN /\ Get(c.result).schema = None
           /\ last = "connect_failed" => Head(error) = "Failed to connect: "
           /\ Head(error) = "Failed to fetch schema: "
                 => (last = "statement_failed" /\ c.caught # Some(CloseError))

\* C20: once the statement of an attempt has succeeded, executeQuery only
\* closes the connection and returns error null, the rows, and the SQL that
\* this attempt executed, with no further repair or attempt; and whatever it
\* returns has exactly one of error and data
C20_SuccessReturnsAtOnce ==
    \A c \in ExecCalls :
        /\ IsSome(c.data) =>
              /\ c.pc \in {"close_try", "returned"}
              /\ Len(c.executed) = c.attempt
              /\ Len(c.repairs) = c.attempt - 1
              /\ c.pc = "returned" =>
                    c.result = Result(None, Some(c.executed[c.attempt]), c.data)
        /\ c.pc = "returned" =>
              (IsNone(Get(c.result).error) <=> IsSome(Get(c.result).data))

\* call i has just made a call of close on a connection that was not
\* connected: never connected, or closed before
ClosedAgain(i) ==
    /\ calls[i].kind = "connection"
    /\ IsSome(calls[i].conn)
    /\ ~Get(calls[i].conn).connected
    /\ Len(calls'[i].outcomes) = Len(calls[i].outcomes) + 1
    /\ calls'[i].outcomes[Len(calls'[i].outcomes)] \in {"closed", "close_failed"}

\* C21: close on a connection that was never connected or is closed already
\* throws nothing and changes neither the connection nor what is open
C21_CloseOnClosedIsNoOp ==
    [][\A i \in DOMAIN calls :
          ClosedAgain(i) =>
              /\ calls'[i].outcomes[Len(calls'[i].outcomes)] = "closed"
              /\ calls'[i].conn = calls[i].conn
              /\ openConns' = openConns]_vars

\* every backend has been closed twice in a row, and postgres and mysql
\* have been closed without ever having been connected
C21_ClosedTwice(type) ==
    \E i \in DOMAIN calls :
        /\ calls[i].kind = "connection" /\ calls[i].dbType = type
        /\ calls[i].outcomes \in {<<"closed", "closed">>,
                                   <<"succeeded", "closed", "closed">>}
C21_Witness ==
    \/ C21_ClosedTwice("sqlite")
    \/ C21_ClosedTwice("postgres")
    \/ C21_ClosedTwice("mysql")

KeyRequired == Message("error", <<"OPENROUTER_KEY environment variable is required">>)

\* C22: in a process without the API key every question is answered at once
\* with the configuration error: no generation is started and nothing is
\* sent to the provider, isProcessing is set only by an execution, and a
\* pending query never comes from a question
C22_NoKeyNoGeneration ==
    ~apiKey =>
        /\ \A i \in DOMAIN calls : calls[i].kind # "gen"
        /\ \A k \in DOMAIN messages :
              messages[k] = Message("user", Question) =>
                  (k < Len(messages) /\ messages[k + 1] = KeyRequired)
        /\ isProcessing => \E i \in DOMAIN calls : calls[i].kind = "exec"
        /\ IsSome(pendingQuery) => Get(pendingQuery).query # Question

\* a question has been asked without the key
C22_Witness ==
    /\ ~apiKey
    /\ \E k \in DOMAIN messages : messages[k] = Message("user", Question)

\* C23: the k-th fixSQL call of an executeQuery gets the SQL that attempt k
\* executed and the error attempt k ended with, and attempt k+1 executes
\* the cleaned SQL of that call's result
C23_RepairChain ==
    \A c \in ExecCalls :
        /\ \A k \in DOMAIN c.repairs :
              /\ k \in DOMAIN c.executed /\ k \in DOMAIN c.errors
              /\ c.repairs[k].sql = c.executed[k]
              /\ c.repairs[k].error = c.errors[k]
        /\ \A k \in DOMAIN c.executed :
              /\ k = 1 => c.executed[k] = c.sqlQuery
              /\ k > 1 => /\ k - 1 \in DOMAIN c.fixes
                          /\ IsSome(c.fixes[k - 1].sql)
                          /\ c.executed[k] = CleanedFix[c.fixes[k - 1]]

\* three attempts whose SQL and errors all differ from one another
C23_Witness ==
    \E c \in ExecCalls :
        /\ Len(c.executed) = 3
        /\ c.executed[1] # c.executed[2]
        /\ c.executed[2] # c.executed[3]
        /\ c.errors[1] # c.errors[2]

\* an executeQuery request is added in this step
ExecutionStarts ==
    /\ Cardinality({i \in DOMAIN calls' : calls'[i].kind = "exec"})
          > Cardinality({i \in DOMAIN calls : calls[i].kind = "exec"})
\* the transcript gets the line of a cancelled query in this step
Cancelled ==
    /\ messages' # messages
    /\ messages' # <<>>
    /\ messages'[Len(messages')] = Message("system", <<"Query cancelled">>)
\* a generation that has returned is taken up by handleSubmit in this step
GenerationResumes(i) ==
    /\ calls[i].kind = "gen" /\ calls[i].pc = "returned"
    /\ Len(calls') = Len(calls) - 1
    /\ isProcessing /\ ~isProcessing'
    /\ restartsLeft' = restartsLeft

\* C24: an execution starts only with a key press of the user while a query
\* is pending and nothing runs, and with the pending SQL; a cancelled query
\* is pending no longer and no call or connection comes of it; a generation
\* that returned an error leaves the pending query as it was
C24_ExecutionOnlyOnConfirm ==
    [][/\ ExecutionStarts =>
            /\ IsSome(pendingQuery) /\ ~isProcessing
            /\ inputsLeft' = inputsLeft - 1
            /\ Len(calls') = Len(calls) + 1
            /\ calls'[Len(calls')].kind = "exec"
            /\ calls'[Len(calls')].sqlQuery = Get(pendingQuery).sql
            /\ pendingQuery' = None
       /\ Cancelled =>
            /\ IsSome(pendingQuery) /\ pendingQuery' = None
            /\ calls' = calls
            /\ openConns' = openConns /\ connSeq' = connSeq
       /\ \A i \in DOMAIN calls :
            GenerationResumes(i) =>
                IF IsSome(Get(calls[i].result).error)
                THEN pendingQuery' = pendingQuery
                ELSE pendingQuery' = Some([sql |-> Get(Get(calls[i].result).sql),
                                           query |-> calls[i].query])]_vars

\* Y has been pressed on a pending query and the execution has begun
C24_Witness ==
    /\ IsNone(pendingQuery) /\ isProcessing
    /\ \E c \in ExecCalls : c.pc = "entry"
    /\ \E k \in DOMAIN messages : messages[k].role = "confirm"

\* the schema is set in this step to something it was not
SchemaChanges == schema' # schema

\* C25: in the query state exactly one of schema and schemaError is set and
\* a schema is the one fetched from the selected source; the schema changes
\* only when a source is selected (it is forgotten), when the fetch for the
\* selected source ends, and when the process starts again, never while a
\* generation or an execution runs
C25_SchemaOfSelection ==
    /\ [](appState = "query" =>
            /\ IsSome(selectedSource)
            /\ IsSome(schema) # IsSome(schemaError)
            /\ IsSome(schema) =>
                  Get(schema) = <<"schema of", Get(selectedSource).id>>)
    /\ [][SchemaChanges =>
            \/ appState' = "loading-schema" /\ schema' = None
            \/ /\ appState = "loading-schema" /\ appState' = "query"
               /\ selectedSource' = selectedSource
               /\ schema' = Some(<<"schema of", Get(selectedSource).id>>)
            \/ restartsLeft' # restartsLeft /\ schema' = None]_vars

\* a second source has been selected after a first whose schema was loaded,
\* and its own fetch has ended
C25_Witness ==
    /\ appState = "query"
    /\ inputsLeft <= MaxInputs - 2
    /\ restartsLeft = MaxRestarts
    /\ Get(selectedSource).id = "s2"

NotLoaded == <<"Database schema not loaded">>

\* without a schema no request has reached the provider or opened a
\* connection, and a request that has returned has returned NotLoaded
NoSchemaNoWork ==
    (appState = "query" /\ IsNone(schema)) =>
        \A i \in DOMAIN calls :
            /\ calls[i].kind = "gen" =>
                  /\ calls[i].pc \in {"entry", "returned"}
                  /\ calls[i].logs = <<>>
                  /\ calls[i].pc = "returned" =>
                        Get(calls[i].result) =
                            [error |-> Some(NotLoaded), sql |-> None, data |-> None]
            /\ calls[i].kind = "exec" =>
                  /\ calls[i].pc \in {"entry", "returned"}
                  /\ calls[i].connIds = <<>> /\ calls[i].fixes = <<>>
                  /\ calls[i].pc = "returned" =>
                        Get(calls[i].result) =
                            [error |-> Some(NotLoaded),
                             sql |-> Some(calls[i].sqlQuery), data |-> None]

\* the questions asked without a schema have been answered with NotLoaded,
\* but for one whose generation has not returned yet
QuestionsAnsweredNotLoaded ==
    (appState = "query" /\ IsNone(schema)) =>
        \A k \in DOMAIN messages :
            messages[k] = Message("user", Question) =>
                \/ k = Len(messages) /\ isProcessing
                \/ k < Len(messages)
                   /\ messages[k + 1] = Message("error", NotLoaded)

\* C26 as stated: every generation or execution request made while no
\* schema is loaded returns "Database schema not loaded" and reaches neither
\* the provider nor a database
C26_NotLoadedWhateverTheKey == NoSchemaNoWork /\ QuestionsAnsweredNotLoaded

\* C26, amended: an execution request, and a generation request of a process
\* that has the API key, made while no schema is loaded returns "Database
\* schema not loaded" and reaches neither the provider nor a database;
\* without the key a question is answered with the configuration error
C26_NotLoadedWithKey ==
    /\ NoSchemaNoWork
    /\ apiKey => QuestionsAnsweredNotLoaded
    /\ (~apiKey /\ appState = "query" /\ IsNone(schema)) =>
          \A k \in DOMAIN messages :
              messages[k] = Message("user", Question) =>
                  (k < Len(messages) /\ messages[k + 1] = KeyRequired)

\* a preset has been confirmed on a source whose schema could not be loaded,
\* and the execution has returned
C26_Witness ==
    /\ appState = "query" /\ IsNone(schema)
    /\ \E c \in ExecCalls : c.pc = "returned"

\* a message of one of the turns the transcript began with
FromEarlierTurn(m) ==
    \/ m.role = "assistant"
    \/ /\ m.role = "user" /\ Len(m.content) = 2
       /\ m.content[1] \in {"question ", "/help "}
\* the transcript still begins as it began: no /new and no /clear so far
Untouched ==
    messages # <<>> /\ messages[1] = Message("log", <<"Schema loaded: ">>)
\* this step puts another transcript in the place of the old one
TranscriptReplaced ==
    ~(/\ Len(messages') >= Len(messages)
      /\ SubSeq(messages', 1, Len(messages)) = messages)

\* C27: once /new or /clear has been given, no generation request carries a
\* turn of the transcript as it was at the start; and a step that replaces
\* the transcript leaves no user or assistant message in it, with no
\* generation under way
C27_ThreadReset ==
    /\ [](~Untouched =>
            \A i \in DOMAIN calls :
                calls[i].kind = "gen" =>
                    \A k \in DOMAIN calls[i].history :
                        ~FromEarlierTurn(calls[i].history[k]))
    /\ [][TranscriptReplaced =>
            /\ C12_Turns(messages') = {}
            /\ \A i \in DOMAIN calls' : calls'[i].kind # "gen"]_vars

\* a question has been asked after /new or /clear
C27_Witness ==
    /\ ~Untouched
    /\ \E i \in DOMAIN calls : calls[i].kind = "gen"


\* ------------------------------------------------------------------------
\* formatSchema called on its own, over rows in any order
\* ------------------------------------------------------------------------
MaxRows == 3
RowTables == {<<"u","s","e","r","s">>, <<"o","r","d","e","r","s">>,
              <<"c","o","n","s","t","r","u","c","t","o","r">>}
CatalogRows ==
    [table_name : RowTables, column_name : {"id", "name"},
     data_type : {"integer"}]
RowInputs == UNION {[1..n -> CatalogRows] : n \in 0..MaxRows}

InitFormatSchema ==
    /\ apiKey = FALSE
    /\ presets = [id \in SourceIds |-> <<>>]
    /\ appState = "manage-sources"
    /\ selectedSource = None
    /\ schema = None
    /\ schemaError = None
    /\ messages = <<>>
    /\ isProcessing = FALSE
    /\ pendingQuery = None
    /\ lastExecutedSql = None
    /\ \E rows \in RowInputs :
          calls = <<[kind |-> "formatSchema", pc |-> "entry", rows |-> rows,
                     result |-> None, caught |-> None]>>
    /\ openConns = {}
    /\ connSeq = 0
    /\ inputsLeft = 0
    /\ restartsLeft = 0

\* formatSchema(rows) runs to its return or to the error it throws
FormatSchemaCall(i) ==
    LET c == calls[i]
        r == formatSchema(c.rows)
    IN
    /\ c.kind = "formatSchema" /\ c.pc = "entry"
    /\ calls' = [calls EXCEPT ![i] =
          IF IsSome(r.threw)
          THEN [c EXCEPT !.pc = "thrown", !.caught = r.threw]
          ELSE [c EXCEPT !.pc = "returned", !.result = Some(r.schema)]]
    /\ UNCHANGED <<apiKey, presets, appVars, uiVars, openConns, connSeq,
                   inputsLeft, restartsLeft>>

NextFormatSchema == \E i \in DOMAIN calls : FormatSchemaCall(i)

SpecFormatSchema == InitFormatSchema /\ [][NextFormatSchema]_vars

\* the schemes parseConnectionString looks for, and typed connection strings
SQLITE ==
    <<"s","q","l","i","t","e",":","/","/">>
FILE ==
    <<"f","i","l","e",":","/","/">>
MYSQL ==
    <<"m","y","s","q","l",":","/","/">>
MYSQL2 ==
    <<"m","y","s","q","l","2",":","/","/">>
POSTGRES ==
    <<"p","o","s","t","g","r","e","s",":","/","/">>
POSTGRESQL ==
    <<"p","o","s","t","g","r","e","s","q","l",":","/","/">>
PgUrl ==
    <<"p","o","s","t","g","r","e","s",":","/","/","u",":","p","@","h","/","d">>
PgPortUrl ==
    <<"p","o","s","t","g","r","e","s","q","l",":","/","/","u",":","p","@","h",":","5","/","d">>
PgNoUser ==
    <<"p","o","s","t","g","r","e","s",":","/","/","h","/","d">>
MysqlUrl ==
    <<"m","y","s","q","l",":","/","/","u",":","p","@","h","/","d">>
Mysql2NoDb ==
    <<"m","y","s","q","l","2",":","/","/","u",":","p","@","h","/">>
SqliteUrl ==
    <<"s","q","l","i","t","e",":","/","/","f">>
OracleUrl ==
    <<"o","r","a","c","l","e",":","/","/","f">>
PaddedSqliteUrl ==
    <<" ","s","q","l","i","t","e",":","/","/","f">>

\* ------------------------------------------------------------------------
\* DataSourceManager: the form that adds a data source
\* ------------------------------------------------------------------------
\* /^...:\/\/([^:]+):([^@]+)@([^:\/]+)(?::(\d+))?\/(.+)$/ after its scheme
UrlPattern(r) ==
    \E a \in 2..Len(r) :
        /\ r[a] = ":"
        /\ \A k \in 1..(a - 1) : r[k] # ":"
        /\ \E b \in (a + 2)..Len(r) :
              /\ r[b] = "@"
              /\ \A k \in (a + 1)..(b - 1) : r[k] # "@"
              /\ \E c \in (b + 2)..Len(r) :
                    /\ \A k \in (b + 1)..(c - 1) : r[k] \notin {":", "/"}
                    /\ \/ /\ r[c] = "/"
                          /\ c < Len(r)
                          /\ \A k \in (c + 1)..Len(r) : r[k] # "\n"
                       \/ /\ r[c] = ":"
                          /\ \E d \in (c + 2)..Len(r) :
                                /\ \A k \in (c + 1)..(d - 1) : r[k] \in Digits
                                /\ r[d] = "/"
                                /\ d < Len(r)
                                /\ \A k \in (d + 1)..Len(r) : r[k] # "\n"

Valid(protocol) ==
    [isValid |-> TRUE, protocol |-> Some(protocol), error |-> None]
Invalid(text) ==
    [isValid |-> FALSE, protocol |-> None, error |-> Some(<<text>>)]

\* DbConnector.parseConnectionString
parseConnectionString(cs) ==
    IF startsWith(cs, SQLITE) \/ startsWith(cs, FILE)
    THEN Valid("sqlite")
    ELSE IF startsWith(cs, MYSQL) \/ startsWith(cs, MYSQL2)
    THEN IF UrlPattern(sliceFrom(cs, IF startsWith(cs, MYSQL2)
                                     THEN Len(MYSQL2) ELSE Len(MYSQL)))
         THEN Valid("mysql")
         ELSE Invalid("Invalid MySQL connection string format")
    ELSE IF startsWith(cs, POSTGRES) \/ startsWith(cs, POSTGRESQL)
    THEN IF UrlPattern(sliceFrom(cs, IF startsWith(cs, POSTGRESQL)
                                     THEN Len(POSTGRESQL) ELSE Len(POSTGRES)))
         THEN Valid("postgres")
         ELSE Invalid("Invalid PostgreSQL connection string format")
    ELSE Invalid("Unsupported database type. Use postgres://, mysql://, or sqlite://")

\* DbConnector.validateConnectionString
validateConnectionString(cs) ==
    IF cs = <<>> THEN Invalid("Connection string is required")
    ELSE parseConnectionString(cs)

\* DbConnector.testConnection: what it can return for a connection string
testConnection(cs) ==
    LET validation == validateConnectionString(cs) IN
    IF ~validation.isValid
    THEN {[success |-> FALSE, error |-> validation.error]}
    ELSE {[success |-> TRUE, error |-> None],
          [success |-> FALSE, error |-> Some(ConnectError)],
          [success |-> FALSE, error |-> Some(<<"Failed to connect to database">>)]}

\* an addDataSource that looks for the id only
addDataSourceIdOnly(config, source, saved) ==
    IF \E k \in DOMAIN config : config[k].id = source.id
    THEN [success |-> FALSE,
          error |-> Some(<<"A data source with this name already exists">>),
          config |-> config]
    ELSE [success |-> saved,
          error |-> IF saved THEN None
                    ELSE Some(<<"Failed to save configuration">>),
          config |-> IF saved THEN Append(config, source) ELSE config]

\* ConfigManager.addDataSource over the sources of the configuration file;
\* saved is whether saveDataSources could write the file
addDataSource(config, source, saved) ==
    IF \E k \in DOMAIN config :
          config[k].id = source.id \/ config[k].name = source.name
    THEN [success |-> FALSE,
          error |-> Some(<<"A data source with this name already exists">>),
          config |-> config]
    ELSE [success |-> saved,
          error |-> IF saved THEN None
                    ELSE Some(<<"Failed to save configuration">>),
          config |-> IF saved THEN Append(config, source) ELSE config]

\* a handleAddSource that starts a test whatever is in progress
submissionIgnoredOnlyBlank(m) == trim(m.connectionString) = <<>>

\* DataSourceManager.handleAddSource, its first line
submissionIgnored(m) == trim(m.connectionString) = <<>> \/ m.isValidating

\* what is typed into the form
SourceNames == {<<"a">>, <<"b">>, <<" ">>}
ConnectionStrings ==
    {PgUrl, PgPortUrl, PgNoUser, MysqlUrl, Mysql2NoDb, SqliteUrl, SQLITE,
     OracleUrl, PaddedSqliteUrl, <<" ">>, <<>>}

MaxFormInputs == 6

\* the component and the part of App it talks to
Manager(config) ==
    [kind |-> "DataSourceManager", pc |-> "mounted",
     mode |-> "menu", sourceName |-> <<>>, connectionString |-> <<>>,
     isValidating |-> FALSE, error |-> None,
     sources |-> config, configFile |-> config,
     idSeq |-> Len(config), lastEvent |-> "none"]

manager == calls[1]

StoredSource ==
    [id |-> 1, name |-> <<"a">>, connectionString |-> SqliteUrl,
     type |-> "sqlite"]

InitAddSource ==
    /\ apiKey = FALSE
    /\ presets = [id \in SourceIds |-> <<>>]
    /\ appState = "manage-sources"
    /\ selectedSource = None
    /\ schema = None
    /\ schemaError = None
    /\ messages = <<>>
    /\ isProcessing = FALSE
    /\ pendingQuery = None
    /\ lastExecutedSql = None
    /\ \E config \in {<<>>, <<StoredSource>>} : calls = <<Manager(config)>>
    /\ openConns = {}
    /\ connSeq = 0
    /\ inputsLeft = MaxFormInputs
    /\ restartsLeft = 0

FormFixed ==
    UNCHANGED <<apiKey, presets, appVars, uiVars, openConns, connSeq,
                restartsLeft>>

UserEvent(m, name) ==
    /\ inputsLeft > 0
    /\ inputsLeft' = inputsLeft - 1
    /\ calls' = [calls EXCEPT ![1] = [m EXCEPT !.lastEvent = name]]
    /\ FormFixed

\* the menu's 'add' item
SelectAdd ==
    /\ manager.mode = "menu"
    /\ UserEvent([manager EXCEPT !.mode = "add-name", !.sourceName = <<>>,
                                 !.connectionString = <<>>, !.error = None],
                 "select")

\* the name field's onChange
ChangeName(name) ==
    /\ manager.mode = "add-name"
    /\ UserEvent([manager EXCEPT !.sourceName = name], "change")

\* the name field's onSubmit
SubmitName ==
    /\ manager.mode = "add-name"
    /\ UserEvent(IF trim(manager.sourceName) # <<>>
                 THEN [manager EXCEPT !.mode = "add-connection"]
                 ELSE manager,
                 "submit")

\* the connection field's onChange
ChangeConnection(cs) ==
    /\ manager.mode = "add-connection"
    /\ UserEvent([manager EXCEPT !.connectionString = cs, !.error = None],
                 "change")

\* handleAddSource up to its await
HandleAddSourceEntry ==
    LET validation == validateConnectionString(manager.connectionString) IN
    /\ manager.mode = "add-connection"
    /\ inputsLeft > 0
    /\ inputsLeft' = inputsLeft - 1
    /\ FormFixed
    /\ IF submissionIgnored(manager)
       THEN calls' = [calls EXCEPT ![1].lastEvent = "submit"]
       ELSE IF ~validation.isValid
       THEN calls' = [calls EXCEPT ![1] = [manager EXCEPT
                         !.error = validation.error,
                         !.lastEvent = "submit"]]
       ELSE calls' = Append(
               [calls EXCEPT ![1] = [manager EXCEPT
                   !.error = None, !.isValidating = TRUE,
                   !.lastEvent = "submit"]],
               [kind |-> "handleAddSource", pc |-> "testing",
                sourceName |-> manager.sourceName,
                connectionString |-> manager.connectionString,
                protocol |-> Get(validation.protocol),
                sources |-> manager.sources,
                result |-> None])

\* testConnection settles
TestConnectionReturns(i) ==
    LET c == calls[i] IN
    /\ i > 1
    /\ c.pc = "testing"
    /\ \E r \in testConnection(c.connectionString) :
          calls' = [calls EXCEPT ![i] = [c EXCEPT !.pc = "tested",
                                                  !.result = Some(r)]]
    /\ UNCHANGED inputsLeft
    /\ FormFixed

\* handleAddSource after its await, with App.handleAddSource
HandleAddSourceResume(i) ==
    LET c == calls[i]
        r == Get(c.result)
        newSource == [id |-> manager.idSeq + 1, name |-> c.sourceName,
                      connectionString |-> c.connectionString,
                      type |-> c.protocol]
    IN
    /\ i > 1
    /\ c.pc = "tested"
    /\ UNCHANGED inputsLeft
    /\ FormFixed
    /\ IF ~r.success
       THEN calls' = RemoveAt([calls EXCEPT ![1] = [manager EXCEPT
                         !.isValidating = FALSE, !.error = r.error]], i)
       ELSE \E saved \in BOOLEAN :
              LET addResult == addDataSource(manager.configFile, newSource,
                                             saved)
                  m == [manager EXCEPT
                          !.isValidating = FALSE,
                          !.idSeq = @ + 1,
                          !.configFile = addResult.config,
                          !.sources = IF addResult.success
                                      THEN Append(c.sources, newSource)
                                      ELSE @]
              IN calls' = RemoveAt([calls EXCEPT ![1] =
                     IF IsSome(addResult.error)
                     THEN [m EXCEPT !.error = addResult.error]
                     ELSE [m EXCEPT !.sourceName = <<>>,
                                    !.connectionString = <<>>,
                                    !.mode = "menu"]], i)

NextAddSource ==
    \/ SelectAdd
    \/ \E name \in SourceNames : ChangeName(name)
    \/ SubmitName
    \/ \E cs \in ConnectionStrings : ChangeConnection(cs)
    \/ HandleAddSourceEntry
    \/ \E i \in DOMAIN calls : TestConnectionReturns(i)
    \/ \E i \in DOMAIN calls : HandleAddSourceResume(i)

SpecAddSource == InitAddSource /\ [][NextAddSource]_vars

\* ------------------------------------------------------------------------
\* ConfigManager called on its own, over the configuration file
\* ------------------------------------------------------------------------
MaxConfigOps == 4
ConfigSourceIds == {1, 2}
ConfigSourceNames == {"a", "b"}
ConfigPresetNames == {"p", "q"}
ConfigSources == [id : ConfigSourceIds, name : ConfigSourceNames]

\* config.json: absent, or an object with dataSources and, if it has the
\* key, presets: an object from source id to the presets saved for it
ConfigOf(sources, presetsKey) ==
    Some([dataSources |-> sources, presets |-> presetsKey])
NoPresets == [id \in {} |-> <<>>]
PresetsOf(file) ==
    IF IsNone(file) \/ IsNone(Get(file).presets) THEN NoPresets
    ELSE Get(Get(file).presets)

\* ConfigManager.loadDataSources
loadDataSources(file) == IF IsNone(file) THEN <<>> ELSE Get(file).dataSources

\* ConfigManager.saveDataSources: the object written holds version,
\* lastModified and dataSources; written is whether writeFileSync succeeded
saveDataSources(file, sources, written) ==
    IF written THEN [saved |-> TRUE, file |-> ConfigOf(sources, None)]
    ELSE [saved |-> FALSE, file |-> file]

\* a removeDataSource that writes the file whatever the id
removeDataSourceAlwaysWriting(file, id, written) ==
    LET filtered == SelectSeq(loadDataSources(file), LAMBDA src : src.id # id)
        w == saveDataSources(file, filtered, written)
    IN [result |-> w.saved, file |-> w.file]

\* ConfigManager.removeDataSource
removeDataSource(file, id, written) ==
    LET sources == loadDataSources(file)
        filtered == SelectSeq(sources, LAMBDA src : src.id # id)
        w == saveDataSources(file, filtered, written)
    IN IF Len(filtered) = Len(sources)
       THEN [result |-> FALSE, file |-> file]
       ELSE [result |-> w.saved, file |-> w.file]

\* a savePreset that does not look for the name
savePresetAnyName(file, sourceId, preset, written) ==
    LET held == PresetsOf(file)
        sourcePresets == IF sourceId \in DOMAIN held THEN held[sourceId]
                         ELSE <<>>
        after == [k \in DOMAIN held \cup {sourceId} |->
                    IF k = sourceId THEN Append(sourcePresets, preset)
                    ELSE held[k]]
    IN IF ~written
       THEN [success |-> FALSE, error |-> Some(<<"EACCES">>), file |-> file]
       ELSE [success |-> TRUE, error |-> None,
             file |-> ConfigOf(loadDataSources(file), Some(after))]

\* ConfigManager.savePreset on the file
savePresetToFile(file, sourceId, preset, written) ==
    LET held == PresetsOf(file)
        sourcePresets == IF sourceId \in DOMAIN held THEN held[sourceId]
                         ELSE <<>>
        after == [k \in DOMAIN held \cup {sourceId} |->
                    IF k = sourceId THEN Append(sourcePresets, preset)
                    ELSE held[k]]
    IN IF \E k \in DOMAIN sourcePresets : sourcePresets[k].name = preset.name
       THEN [success |-> FALSE,
             error |-> Some(<<"A preset with this name already exists">>),
             file |-> file]
       ELSE IF ~written
       THEN [success |-> FALSE, error |-> Some(<<"EACCES">>), file |-> file]
       ELSE [success |-> TRUE, error |-> None,
             file |-> ConfigOf(loadDataSources(file), Some(after))]

\* ConfigManager.removePreset
removePreset(file, sourceId, presetId, written) ==
    LET held == PresetsOf(file) IN
    IF IsNone(file) THEN [result |-> FALSE, file |-> file]
    ELSE IF sourceId \notin DOMAIN held THEN [result |-> FALSE, file |-> file]
    ELSE IF ~written THEN [result |-> FALSE, file |-> file]
    ELSE [result |-> TRUE,
          file |-> ConfigOf(loadDataSources(file),
                     Some([held EXCEPT ![sourceId] =
                             SelectSeq(@, LAMBDA p : p.id # presetId)]))]

\* the file with the calls made on it: the last call and what it returned
ConfigState(file, idSeq, op, arg, ok) ==
    [kind |-> "ConfigManager", pc |-> "idle", file |-> file, idSeq |-> idSeq,
     op |-> op, arg |-> arg, ok |-> ok]
config == calls[1]

OnePreset == [id |-> 1, name |-> "p", sql |-> RawSelect1]
ConfigFiles ==
    {None,
     ConfigOf(<<>>, None),
     ConfigOf(<<[id |-> 1, name |-> "a"]>>, Some([id \in {1} |-> <<OnePreset>>])),
     ConfigOf(<<[id |-> 1, name |-> "a"], [id |-> 2, name |-> "b"]>>,
              Some([id \in {1, 2} |-> IF id = 1 THEN <<OnePreset>> ELSE <<>>]))}

InitConfig ==
    /\ apiKey = FALSE
    /\ presets = [id \in SourceIds |-> <<>>]
    /\ appState = "manage-sources"
    /\ selectedSource = None
    /\ schema = None
    /\ schemaError = None
    /\ messages = <<>>
    /\ isProcessing = FALSE
    /\ pendingQuery = None
    /\ lastExecutedSql = None
    /\ \E file \in ConfigFiles : calls = <<ConfigState(file, 1, "none", <<>>, FALSE)>>
    /\ openConns = {}
    /\ connSeq = 0
    /\ inputsLeft = MaxConfigOps
    /\ restartsLeft = 0

ConfigCall(file, idSeq, op, arg, ok) ==
    /\ inputsLeft > 0
    /\ inputsLeft' = inputsLeft - 1
    /\ calls' = <<ConfigState(file, idSeq, op, arg, ok)>>
    /\ UNCHANGED <<apiKey, presets, appVars, uiVars, openConns, connSeq,
                   restartsLeft>>

AddDataSourceCall(source, written) ==
    /\ config.kind = "ConfigManager"
    /\ LET loaded == loadDataSources(config.file)
            r == addDataSource(loaded, source, written)
        IN ConfigCall(IF r.success
                      THEN saveDataSources(config.file, r.config, TRUE).file
                      ELSE config.file,
                      config.idSeq, "addDataSource", source, r.success)

RemoveDataSourceCall(id, written) ==
    /\ config.kind = "ConfigManager"
    /\ LET r == removeDataSource(config.file, id, written)
        IN ConfigCall(r.file, config.idSeq, "removeDataSource", id, r.result)

SavePresetCall(sourceId, name, written) ==
    /\ config.kind = "ConfigManager"
    /\ LET r == savePresetToFile(config.file, sourceId,
                     [id |-> config.idSeq + 1, name |-> name, sql |-> RawSelect1],
                     written)
        IN ConfigCall(r.file, config.idSeq + 1, "savePreset",
                      [sourceId |-> sourceId, name |-> name], r.success)

RemovePresetCall(sourceId, presetId, written) ==
    /\ config.kind = "ConfigManager"
    /\ LET r == removePreset(config.file, sourceId, presetId, written)
        IN ConfigCall(r.file, config.idSeq, "removePreset",
                      [sourceId |-> sourceId, id |-> presetId], r.result)

NextConfig ==
    \/ \E source \in ConfigSources, written \in BOOLEAN :
          AddDataSourceCall(source, written)
    \/ \E id \in ConfigSourceIds, written \in BOOLEAN :
          RemoveDataSourceCall(id, written)
    \/ \E sourceId \in ConfigSourceIds, name \in ConfigPresetNames,
          written \in BOOLEAN : SavePresetCall(sourceId, name, written)
    \/ \E sourceId \in ConfigSourceIds, presetId \in 1..(MaxConfigOps + 1),
          written \in BOOLEAN : RemovePresetCall(sourceId, presetId, written)

SpecConfig == InitConfig /\ [][NextConfig]_vars

\* ------------------------------------------------------------------------
\* addMessage called on its own, more often than the transcript is long
\* ------------------------------------------------------------------------
MaxAdds == 110

\* the k-th message given to addMessage
Numbered(k) == Message("log", <<ToString(k)>>)
AddsSoFar == MaxAdds - inputsLeft

InitAddMessage ==
    /\ apiKey = FALSE
    /\ presets = [id \in SourceIds |-> <<>>]
    /\ appState = "query"
    /\ selectedSource = None
    /\ schema = None
    /\ schemaError = None
    /\ messages = <<>>
    /\ isProcessing = FALSE
    /\ pendingQuery = None
    /\ lastExecutedSql = None
    /\ calls = <<>>
    /\ openConns = {}
    /\ connSeq = 0
    /\ inputsLeft = MaxAdds
    /\ restartsLeft = 0

\* addMessage(msg)
AddMessageCall ==
    /\ inputsLeft > 0
    /\ inputsLeft' = inputsLeft - 1
    /\ messages' = addMessage(messages, Numbered(AddsSoFar + 1))
    /\ UNCHANGED <<apiKey, presets, appVars, isProcessing, pendingQuery,
                   lastExecutedSql, calls, openConns, connSeq, restartsLeft>>

NextAddMessage == AddMessageCall

SpecAddMessage == InitAddMessage /\ [][NextAddMessage]_vars

\* an execution that returned rows is taken up by executeConfirmedQuery in
\* this step
SuccessResumes(i) ==
    /\ calls[i].kind = "exec" /\ calls[i].pc = "returned"
    /\ IsNone(Get(calls[i].result).error)
    /\ Len(calls') = Len(calls) - 1
    /\ isProcessing /\ ~isProcessing'
    /\ restartsLeft' = restartsLeft

AddSourceCalls == {i \in DOMAIN calls : calls[i].kind = "handleAddSource"}

\* the step ends an activation of handleAddSource
AddSourceEnds(i) ==
    /\ i \in AddSourceCalls
    /\ calls[i].pc = "tested"
    /\ Len(calls') = Len(calls) - 1

\* the user pressed Enter in this step
Submitted == inputsLeft' < inputsLeft /\ manager'.lastEvent = "submit"

\* the step adds one data source, built from what activation i was started
\* with, to the configuration file and to the list of App
Added(i) ==
    /\ manager'.configFile # <<>>
    /\ LET src == manager'.configFile[Len(manager'.configFile)] IN
        /\ manager'.configFile = Append(manager.configFile, src)
        /\ manager'.sources = Append(manager.sources, src)
        /\ src.connectionString = calls[i].connectionString
        /\ src.name = calls[i].sourceName
        /\ Some(src.type) =
              validateConnectionString(calls[i].connectionString).protocol

NothingAdded ==
    /\ manager'.configFile = manager.configFile
    /\ manager'.sources = manager.sources

\* C29: the configuration file and the list of sources change only when an
\* activation of handleAddSource ends whose connection string passes
\* validateConnectionString and whose test connection succeeded, by that
\* source being added; at most one test is in progress, and a submission made
\* meanwhile changes nothing; a validation, connection or persistence error
\* is shown, adds nothing and leaves the form in the add-connection mode
C29_PersistedOnlyAfterValidationAndTest ==
    /\ [](/\ Cardinality(AddSourceCalls) <= 1
          /\ (AddSourceCalls # {}) = manager.isValidating
          /\ manager.isValidating => manager.mode = "add-connection")
    /\ [][/\ ~NothingAdded =>
               \E i \in AddSourceCalls :
                   /\ AddSourceEnds(i)
                   /\ Get(calls[i].result).success
                   /\ validateConnectionString(
                          calls[i].connectionString).isValid
                   /\ Added(i)
                   /\ manager'.mode = "menu"
          /\ (Submitted /\ manager.isValidating) =>
               calls' = [calls EXCEPT ![1].lastEvent = "submit"]
          /\ (/\ Submitted /\ ~manager.isValidating
              /\ manager.mode = "add-connection"
              /\ trim(manager.connectionString) # <<>>
              /\ ~validateConnectionString(
                      manager.connectionString).isValid) =>
               /\ IsSome(manager'.error)
               /\ Len(calls') = Len(calls)
          /\ \A i \in AddSourceCalls :
               (AddSourceEnds(i) /\ ~Get(calls[i].result).success) =>
                   manager'.error = Get(calls[i].result).error
          /\ \A i \in AddSourceCalls :
               (AddSourceEnds(i) /\ Get(calls[i].result).success) =>
                   \/ Added(i) /\ IsNone(manager'.error)
                   \/ NothingAdded /\ IsSome(manager'.error)
          /\ (IsSome(manager'.error) /\ manager'.error # manager.error) =>
               /\ NothingAdded
               /\ manager'.mode = "add-connection"]_vars

\* a second source has been added by two submissions of the connection field
C29_Witness ==
    /\ Len(manager.configFile) = 2
    /\ manager.sources = manager.configFile
    /\ manager.lastEvent = "submit"
    /\ manager.configFile[2].connectionString = PgPortUrl
    /\ manager.mode = "menu"
    /\ inputsLeft = 0

\* the calls of formatSchema that have ended
FormatSchemaEnded ==
    {c \in Range(calls) : c.kind = "formatSchema" /\ c.pc # "entry"}

\* the rows of one table, as the entries formatSchema makes of them
ColumnsOf(rows, table) ==
    LET own == SelectSeq(rows, LAMBDA row : row.table_name = table)
    IN [k \in DOMAIN own |->
          [column |-> own[k].column_name, type |-> own[k].data_type]]

\* obj holds each table name of rows once, and under it that table's rows in
\* their order
GroupedByTable(obj, rows) ==
    /\ {obj[k].table : k \in DOMAIN obj} =
          {rows[k].table_name : k \in DOMAIN rows}
    /\ \A a, b \in DOMAIN obj : obj[a].table = obj[b].table => a = b
    /\ \A k \in DOMAIN obj : obj[k].columns = ColumnsOf(rows, obj[k].table)

\* C30: formatSchema returns, for every sequence of catalog rows, an object
\* in which each distinct table name of the input is a key exactly once and
\* holds exactly that table's rows in their relative order
C30_GroupsByTable ==
    \A c \in FormatSchemaEnded :
        /\ c.pc = "returned"
        /\ GroupedByTable(Get(c.result), c.rows)

\* the same for rows none of whose table names Object.prototype answers
C30_GroupsOwnNames ==
    \A c \in FormatSchemaEnded :
        (\A k \in DOMAIN c.rows : c.rows[k].table_name \notin ObjectPrototype)
            => /\ c.pc = "returned"
               /\ GroupedByTable(Get(c.result), c.rows)

\* the presets the file holds for each source; none where it has no entry
SavedPresets(file) ==
    [id \in ConfigSourceIds |->
        IF id \in DOMAIN PresetsOf(file) THEN PresetsOf(file)[id] ELSE <<>>]

\* the step is a call of one of the named functions of ConfigManager
Called(ops) == inputsLeft' < inputsLeft /\ config'.op \in ops

\* saving or removing a preset leaves the dataSources list as it was
PresetCallsKeepSources ==
    [][Called({"savePreset", "removePreset"}) =>
          loadDataSources(config'.file) = loadDataSources(config.file)]_vars

\* C31: a call of addDataSource or removeDataSource leaves the presets of
\* every source in the file as they were, and a call of savePreset or
\* removePreset leaves the dataSources list as it was
C31_SourcesAndPresetsApart ==
    [][/\ Called({"addDataSource", "removeDataSource"}) =>
             SavedPresets(config'.file) = SavedPresets(config.file)
       /\ Called({"savePreset", "removePreset"}) =>
             loadDataSources(config'.file) = loadDataSources(config.file)]_vars

\* the data sources the file holds before and after the step
SourcesBefore == loadDataSources(config.file)
SourcesAfter == loadDataSources(config'.file)

\* the source given to addDataSource has the id or the name of a held one
Duplicates(sources, source) ==
    \E k \in DOMAIN sources :
        sources[k].id = source.id \/ sources[k].name = source.name

\* C32: no two data sources of the file share an id or a name; addDataSource
\* of a source whose id or name is held already returns success = false and
\* leaves the list as it was, and removeDataSource of an id that is not held
\* returns false and leaves the list as it was
C32_SourcesDistinct ==
    /\ [](\A a, b \in DOMAIN loadDataSources(config.file) :
             LET sources == loadDataSources(config.file) IN
             (sources[a].id = sources[b].id
                \/ sources[a].name = sources[b].name) => a = b)
    /\ [][/\ (Called({"addDataSource"})
                /\ Duplicates(SourcesBefore, config'.arg)) =>
               ~config'.ok /\ SourcesAfter = SourcesBefore
          /\ (Called({"removeDataSource"})
                /\ \A k \in DOMAIN SourcesBefore :
                      SourcesBefore[k].id # config'.arg) =>
               ~config'.ok /\ SourcesAfter = SourcesBefore]_vars

\* addDataSource has refused a source that has a new id and a held name
C32_Witness ==
    /\ config.op = "addDataSource"
    /\ ~config.ok
    /\ \E k \in DOMAIN loadDataSources(config.file) :
          /\ loadDataSources(config.file)[k].name = config.arg.name
    /\ \A k \in DOMAIN loadDataSources(config.file) :
          loadDataSources(config.file)[k].id # config.arg.id

\* the source already has a preset of that name
NameHeld(file, sourceId, name) ==
    \E k \in DOMAIN SavedPresets(file)[sourceId] :
        SavedPresets(file)[sourceId][k].name = name

\* C33: the presets the file holds for one source have pairwise distinct
\* names; savePreset of a name the source already has returns
\* success = false and leaves the file as it was; savePreset and removePreset
\* leave the presets of every other source as they were
C33_PresetNamesDistinct ==
    /\ [](\A id \in ConfigSourceIds :
             \A a, b \in DOMAIN SavedPresets(config.file)[id] :
                 SavedPresets(config.file)[id][a].name =
                     SavedPresets(config.file)[id][b].name => a = b)
    /\ [][/\ (Called({"savePreset"})
                /\ NameHeld(config.file, config'.arg.sourceId,
                            config'.arg.name)) =>
               ~config'.ok /\ config'.file = config.file
          /\ Called({"savePreset", "removePreset"}) =>
               \A id \in ConfigSourceIds \ {config'.arg.sourceId} :
                   SavedPresets(config'.file)[id] =
                       SavedPresets(config.file)[id]]_vars

\* savePreset has refused a name its source holds, and another source holds
\* a preset of its own
C33_Witness ==
    /\ config.op = "savePreset"
    /\ ~config.ok
    /\ NameHeld(config.file, config.arg.sourceId, config.arg.name)
    /\ \E id \in ConfigSourceIds \ {config.arg.sourceId} :
          SavedPresets(config.file)[id] # <<>>

\* C34: the transcript never holds more than 100 messages; a call of
\* addMessage puts its message last, and what stands before it is the
\* transcript as it was, without its oldest entries where it was full
C34_AtMostHundredNewestKept ==
    /\ [](Len(messages) <= 100)
    /\ [][inputsLeft' < inputsLeft =>
            LET kept == Len(messages') - 1 IN
            /\ Len(messages') = IF Len(messages) < 100 THEN Len(messages) + 1
                                ELSE 100
            /\ messages'[Len(messages')] = Numbered(AddsSoFar + 1)
            /\ SubSeq(messages', 1, kept) =
                  SubSeq(messages, Len(messages) - kept + 1,
                         Len(messages))]_vars

\* the transcript is full and its oldest messages have been dropped
C34_Witness ==
    /\ Len(messages) = 100
    /\ messages[1] = Numbered(AddsSoFar - 99)
    /\ AddsSoFar > 100
====
